---- MODULE Spec2Model ----
(***************************************************************************)
(* A model of the Atlas agent core (src/core/brain.py): the response       *)
(* parser, the capability dispatcher and the think() control loop, and of  *)
(* the code executor (src/core/tools/code_executor.py).                    *)
(*                                                                         *)
(* Model text is a sequence of lexemes.  "F" is a fence marker (three      *)
(* backticks), "J" the four characters json, "w" a word of prose, "sp"     *)
(* white space; the other lexemes are JSON: brackets, braces, the comma,   *)
(* scalar literals and, as one lexeme each, complete non-empty JSON        *)
(* objects (the O_ and P_ lexemes, whose fields are tabulated below).      *)
(***************************************************************************)
EXTENDS Integers, Sequences, FiniteSets, TLC

VARIABLES
    parser_text,     \* SpecParser: the model text handed to _parse_tool_call
    parser_pc,       \* SpecParser: "build" | "parsed"
    parser_result,   \* SpecParser: what _parse_tool_call did with parser_text
    pc,              \* think(): where the request is
    requests,        \* number of think() calls started on this brain
    plan,            \* think(): what _get_plan returned
    turn,            \* think(): i+1 of the single-shot loop, or of the plan walk
    response,        \* the text of the last model call
    tool_calls,      \* what _parse_tool_call returned for response
    idx,             \* position in tool_calls of the next action to handle
    context,         \* think(): the entries appended to the context string
    step_results,    \* think(): the (step, result) pairs of plan mode
    results,         \* _execute_step: the results of the step's actions
    final_answer,    \* think(): final_answer
    model_calls,     \* history: the kinds of the _call_qwen calls of the request
    dispatches,      \* history: the _execute_tool calls of the request
    invoked,         \* history: the capability invocations of the request
    exc,             \* the exception think() raised, "" if none
    memory_log,      \* Memory: the messages added by add_message
    answer,          \* what think() returned to its caller
    code,            \* SpecExecutor: the snippet handed to CodeExecutor.execute
    ex_pc,           \* execute(): where the call is
    ex_trace,        \* history: the stages the call went through
    ip,              \* _run_code: position in code of the next statement
    stdout_capture,  \* _run_code: what the snippet wrote to standard output
    stderr_capture,  \* _run_code: what the snippet wrote to standard error
    ran,             \* history: the statements of the snippet that were run
    ex_result,       \* what execute() returned
    kb_file,         \* the fact store: the content of KB_FILE
    knowledge_base,  \* AtlasBrain.knowledge_base: the brain's fact snapshot
    kb_last,         \* SpecKB: the last call on the fact store
    kb_prev,         \* SpecKB: the call before it
    web_pc,          \* SpecWeb: where the call of _make_request is
    web_env,         \* SpecWeb: PROXY_HTTP of the environment
    web_url,         \* SpecWeb: the url of the request
    attempts,        \* SpecWeb: history: the requests.get calls of the request
    web_result,      \* SpecWeb: what _make_request returned or raised
    web_count,       \* SpecWeb: number of web requests made
    path_arg,        \* SpecPath: the path argument of the file capability
    fs_pc,           \* SpecPath: "build" | "done"
    fs_touched,      \* SpecPath: the targets the capability operated on
    fs_result,       \* SpecPath: what the capability returned
    sess_pc,         \* SpecSessions: where each think() call is
    sess_plan,       \* SpecSessions: the plan of each call
    sess_turn,       \* SpecSessions: the round or step counter of each call
    sess_context,    \* SpecSessions: the context of each call
    short_term_memory,  \* SpecMemory: Memory.short_term_memory
    long_term_memory,   \* SpecMemory: Memory.long_term_memory
    embeddings,         \* SpecMemory: Memory.embeddings
    memory_files,       \* SpecMemory: the three files of the memory directory
    mem_count,          \* SpecMemory: number of messages that ever were added
    capabilities,    \* SpecEvolution: CapabilityManager.capabilities["capabilities"]
    evo_pc,          \* SpecEvolution: where learn_new_capability is
    evo_name,        \* SpecEvolution: the name it was called with
    evo_result,      \* SpecEvolution: result["success"]
    evo_log,         \* SpecEvolution: the stages the current call went through
    evo_hist,        \* SpecEvolution: the statuses each name went through
    race_pc,         \* SpecKBRace: where each session's store call is
    race_op,         \* SpecKBRace: the call of each session
    race_kb,         \* SpecKBRace: the dict each call loaded (its local kb)
    race_res         \* SpecKBRace: the success each call reported

parser_vars == <<parser_text, parser_pc, parser_result>>

brain_vars ==
    <<pc, requests, plan, turn, response, tool_calls, idx, context,
      step_results, results, final_answer, model_calls, dispatches, invoked,
      exc, memory_log, answer>>

executor_vars ==
    <<code, ex_pc, ex_trace, ip, stdout_capture, stderr_capture, ran, ex_result>>

store_vars == <<kb_file, knowledge_base>>

kbop_vars == <<kb_last, kb_prev>>

web_vars == <<web_pc, web_env, web_url, attempts, web_result, web_count>>

path_vars == <<path_arg, fs_pc, fs_touched, fs_result>>

sess_vars == <<sess_pc, sess_plan, sess_turn, sess_context>>

mem_vars ==
    <<short_term_memory, long_term_memory, embeddings, memory_files, mem_count>>

evo_vars == <<capabilities, evo_pc, evo_name, evo_result, evo_log, evo_hist>>

race_vars == <<race_pc, race_op, race_kb, race_res>>

late_vars == <<mem_vars, evo_vars, race_vars>>

\* The variables of the specifications of single components
aside_vars == <<kbop_vars, web_vars, path_vars, sess_vars, late_vars>>

vars ==
    <<parser_vars, brain_vars, executor_vars, store_vars, kbop_vars, web_vars,
      path_vars, sess_vars, late_vars>>

----------------------------------------------------------------------------
(* Bounds *)

MaxTextLen == 4

----------------------------------------------------------------------------
(* Python values, as far as the core looks at them *)

NoneVal == [t |-> "none", items |-> <<>>, tok |-> ""]
NumVal == [t |-> "num", items |-> <<>>, tok |-> ""]
ZeroVal == [t |-> "zero", items |-> <<>>, tok |-> ""]
StrVal == [t |-> "str", items |-> <<>>, tok |-> ""]
DictVal(tok) == [t |-> "dict", items |-> <<>>, tok |-> tok]
ListVal(items) == [t |-> "list", items |-> items, tok |-> ""]

\* Python truthiness: None, 0 and empty containers are false.  Every O_/P_
\* object has at least one key; the dict written "{" "}" has none.
Truthy(v) ==
    CASE v.t = "none" -> FALSE
      [] v.t = "zero" -> FALSE
      [] v.t = "list" -> Len(v.items) > 0
      [] v.t = "dict" -> v.tok # "{}"
      [] OTHER -> TRUE

----------------------------------------------------------------------------
(* Lexemes *)

ScalarTokens == {"num", "zero", "str", "null"}

\* Complete JSON objects that encode an ActionRequest.
ActionObjects ==
    {"O_mkdir", "O_badargs", "O_nonmap", "O_noparams", "O_unknown",
     "O_remember", "O_run"}

\* Complete JSON objects that encode a planner payload.
PlanObjects ==
    {"P_simple", "P_two", "P_empty", "P_num", "P_other", "P_blank"}

ObjectTokens == ActionObjects \cup PlanObjects

ScalarVal(c) ==
    CASE c = "num" -> NumVal
      [] c = "zero" -> ZeroVal
      [] c = "str" -> StrVal
      [] OTHER -> NoneVal

----------------------------------------------------------------------------
(* json.loads on a lexeme sequence *)

RECURSIVE SkipWs(_, _)
SkipWs(s, i) ==
    IF i <= Len(s) /\ s[i] = "sp" THEN SkipWs(s, i + 1) ELSE i

ScanFail == [ok |-> FALSE, val |-> NoneVal, next |-> 0]
ScanOk(v, n) == [ok |-> TRUE, val |-> v, next |-> n]

RECURSIVE ScanValue(_, _)
RECURSIVE ScanElems(_, _, _)

\* One JSON value starting at s[i].
ScanValue(s, i) ==
    IF i > Len(s) THEN ScanFail
    ELSE LET c == s[i] IN
         CASE c \in ScalarTokens -> ScanOk(ScalarVal(c), i + 1)
           [] c \in ObjectTokens -> ScanOk(DictVal(c), i + 1)
           [] c = "{" ->
                LET k == SkipWs(s, i + 1) IN
                IF k <= Len(s) /\ s[k] = "}"
                THEN ScanOk(DictVal("{}"), k + 1) ELSE ScanFail
           [] c = "[" ->
                LET k == SkipWs(s, i + 1) IN
                IF k <= Len(s) /\ s[k] = "]"
                THEN ScanOk(ListVal(<<>>), k + 1)
                ELSE ScanElems(s, k, <<>>)
           [] OTHER -> ScanFail

\* The elements of an array after "[", acc holding those already read.
ScanElems(s, i, acc) ==
    LET r == ScanValue(s, i) IN
    IF ~r.ok THEN ScanFail
    ELSE LET k == SkipWs(s, r.next) IN
         IF k > Len(s) THEN ScanFail
         ELSE IF s[k] = "]" THEN ScanOk(ListVal(Append(acc, r.val)), k + 1)
         ELSE IF s[k] = "," THEN ScanElems(s, SkipWs(s, k + 1), Append(acc, r.val))
         ELSE ScanFail

\* json.loads: one value, white space around it allowed, nothing else.
JsonLoads(s) ==
    LET r == ScanValue(s, SkipWs(s, 1)) IN
    IF r.ok /\ SkipWs(s, r.next) = Len(s) + 1
    THEN [raised |-> FALSE, value |-> r.val]
    ELSE [raised |-> TRUE, value |-> NoneVal]

----------------------------------------------------------------------------
(* str operations used by the parsers *)

\* "```json" in s
ContainsJsonFence(s) ==
    \E i \in 1..(Len(s) - 1) : s[i] = "F" /\ s[i + 1] = "J"

JsonFenceAt(s, i) == i < Len(s) /\ s[i] = "F" /\ s[i + 1] = "J"

FirstJsonFence(s) ==
    CHOOSE i \in 1..Len(s) :
        JsonFenceAt(s, i) /\ \A k \in 1..(i - 1) : ~JsonFenceAt(s, k)

\* s.split("```json")[1], for s that contains the separator
AfterFirstJsonFence(s) ==
    LET p == FirstJsonFence(s)
        rest == SubSeq(s, p + 2, Len(s))
    IN IF ContainsJsonFence(rest)
       THEN SubSeq(rest, 1, FirstJsonFence(rest) - 1)
       ELSE rest

\* s.split("```")[0]
BeforeFirstFence(s) ==
    IF \E i \in 1..Len(s) : s[i] = "F"
    THEN SubSeq(s, 1, (CHOOSE i \in 1..Len(s) :
                          s[i] = "F" /\ \A k \in 1..(i - 1) : s[k] # "F") - 1)
    ELSE s

RECURSIVE StripLeft(_)
StripLeft(s) ==
    IF Len(s) > 0 /\ s[1] = "sp" THEN StripLeft(Tail(s)) ELSE s

RECURSIVE StripRight(_)
StripRight(s) ==
    IF Len(s) > 0 /\ s[Len(s)] = "sp"
    THEN StripRight(SubSeq(s, 1, Len(s) - 1)) ELSE s

\* s.strip()
Strip(s) == StripRight(StripLeft(s))

----------------------------------------------------------------------------
(* AtlasBrain._parse_tool_call *)

\* The text handed to json.loads, picked as if any fence opened a block.
ExtractAnyFence(text) ==
    IF \E i \in 1..Len(text) : text[i] = "F"
    THEN LET p == CHOOSE i \in 1..Len(text) :
                      text[i] = "F" /\ \A k \in 1..(i - 1) : text[k] # "F"
             q == IF JsonFenceAt(text, p) THEN p + 2 ELSE p + 1
         IN Strip(BeforeFirstFence(SubSeq(text, q, Len(text))))
    ELSE Strip(text)

\* brain.py 245-249: the text handed to json.loads
ExtractJsonStr(text) ==
    IF ContainsJsonFence(text)
    THEN Strip(BeforeFirstFence(AfterFirstJsonFence(text)))
    ELSE Strip(text)

\* brain.py 251: a single object becomes a one-element list
NormalizeToolCalls(v) == IF v.t = "dict" THEN ListVal(<<v>>) ELSE v

\* An except clause that lets the exception through.
NoExcept(attempt) == attempt

\* brain.py 252-253: except Exception: return None
ExceptReturnNone(attempt) ==
    IF attempt.raised THEN [raised |-> FALSE, value |-> NoneVal] ELSE attempt

ParseToolCall(text) ==
    LET loaded == JsonLoads(ExtractJsonStr(text)) IN
    ExceptReturnNone(
        IF loaded.raised THEN loaded
        ELSE [raised |-> FALSE, value |-> NormalizeToolCalls(loaded.value)])

----------------------------------------------------------------------------
(* The capability dispatcher: AtlasBrain._execute_tool *)

\* brain.py 259-279: the keys of tool_map
ToolMapNames ==
    {"create_directory", "delete_directory", "create_file", "delete_file",
     "move_directory", "move_file", "write_file", "read_file",
     "list_directory", "execute_python", "read_web_content",
     "list_web_resources", "web_search", "remember", "recall", "forget",
     "list_facts", "get_current_location", "get_weather"}

\* tool_manager.py 12-174: the methods class AtlasTools defines
AtlasToolsMethods ==
    {"read_web_content", "list_web_resources", "get_current_location",
     "get_weather", "create_directory", "delete_directory", "create_file",
     "delete_file", "move_directory", "move_file", "write_file", "read_file",
     "list_directory", "execute_python"}

\* The keyword parameters a capability requires.
RequiredParams(name) ==
    CASE name \in {"create_directory", "delete_directory", "create_file",
                   "delete_file", "read_file"} -> {"path"}
      [] name \in {"move_directory", "move_file"} -> {"src", "dst"}
      [] name = "write_file" -> {"path", "content"}
      [] name = "execute_python" -> {"code"}
      [] name \in {"read_web_content", "list_web_resources"} -> {"url"}
      [] name = "remember" -> {"key", "value"}
      [] name \in {"recall", "forget"} -> {"key"}
      [] name = "web_search" -> {"query"}
      [] OTHER -> {}

\* The keyword parameters a capability has a default for.
OptionalParams(name) ==
    CASE name = "create_file" -> {"content"}
      [] name = "write_file" -> {"mode"}
      [] name = "list_directory" -> {"path"}
      [] name = "get_weather" -> {"city"}
      [] OTHER -> {}

\* tool_call.get('action'); "None" when the object has no such key
ActionOf(tok) ==
    CASE tok = "O_mkdir" -> "create_directory"
      [] tok = "O_badargs" -> "create_file"
      [] tok = "O_nonmap" -> "list_directory"
      [] tok = "O_noparams" -> "list_directory"
      [] tok = "O_unknown" -> "fly_to_moon"
      [] tok = "O_remember" -> "remember"
      [] tok = "O_run" -> "execute_python"
      [] OTHER -> "None"

\* tool_call.get('parameters', {}): the keys of the mapping, or no mapping
ParamsOf(tok) ==
    CASE tok = "O_mkdir" -> [mapping |-> TRUE, keys |-> {"path"}]
      [] tok = "O_badargs" -> [mapping |-> TRUE, keys |-> {"content"}]
      [] tok = "O_nonmap" -> [mapping |-> FALSE, keys |-> {}]
      [] tok = "O_remember" -> [mapping |-> TRUE, keys |-> {"key", "value"}]
      [] tok = "O_run" -> [mapping |-> TRUE, keys |-> {"code"}]
      [] OTHER -> [mapping |-> TRUE, keys |-> {}]

\* f(**params) binds: params is a mapping and its keys fit f's signature
CallBinds(name, params) ==
    /\ params.mapping
    /\ RequiredParams(name) \subseteq params.keys
    /\ params.keys \subseteq (RequiredParams(name) \cup OptionalParams(name))

\* What a capability, once called, may do.  Every capability catches its own
\* exceptions but execute_python, whose static check catches SyntaxError only.
CapabilityOutcomes(name) ==
    {"ok", "fail"} \cup (IF name = "execute_python" THEN {"raise"} ELSE {})

ActionResult(success, message, name) ==
    [success |-> success, message |-> message, name |-> name, output |-> <<>>]

NoActionResult == ActionResult(FALSE, "", "")

Raise(e) ==
    [raised |-> TRUE, exc |-> e, result |-> NoActionResult, invoked |-> <<>>]

Return(r, inv) ==
    [raised |-> FALSE, exc |-> "", result |-> r, invoked |-> inv]

\* brain.py 259-279: the dict display evaluates self.tools.<name> for every
\* key; an attribute AtlasTools does not have raises AttributeError.
BuildToolMap == ToolMapNames \subseteq AtlasToolsMethods

\* brain.py 255-285, for a tool_call that is the dict tok; outcome is what
\* the capability does if it is called.
ExecuteTool(tok, outcome) ==
    LET action == ActionOf(tok)
        params == ParamsOf(tok)
    IN IF ~BuildToolMap THEN Raise("AttributeError")
       ELSE IF action \in ToolMapNames
       THEN IF ~CallBinds(action, params) THEN Raise("TypeError")
            ELSE IF outcome = "raise"
                 THEN [Raise("CapabilityError") EXCEPT !.invoked = <<action>>]
                 ELSE Return(ActionResult(outcome = "ok", "capability", action),
                             <<action>>)
       ELSE Return(ActionResult(FALSE, "unknown", action), <<>>)

\* History: one call of _execute_tool, with what it did.
DispatchRecord(n, tc, o, r) ==
    [round |-> n, dict |-> tc.t = "dict", tok |-> tc.tok, outcome |-> o,
     raised |-> r.raised, exc |-> r.exc, result |-> r.result,
     invoked |-> r.invoked]

\* _execute_tool(tool_call) for any element of tool_calls: .get needs a dict
ExecuteToolValue(v, outcome) ==
    IF v.t = "dict" THEN ExecuteTool(v.tok, outcome) ELSE Raise("AttributeError")

----------------------------------------------------------------------------
(* The plan stage: AtlasBrain._get_plan *)

SimpleTask == [kind |-> "simple", steps |-> <<>>]

\* plan_json.get("plan", "simple_task") for a decoded object
PlanField(tok) ==
    CASE tok = "P_simple" -> SimpleTask
      [] tok = "P_two" -> [kind |-> "list", steps |-> <<"s1", "s2">>]
      [] tok = "P_empty" -> [kind |-> "list", steps |-> <<>>]
      [] tok = "P_num" -> [kind |-> "num", steps |-> <<>>]
      [] tok = "P_other" -> [kind |-> "str", steps |-> <<"a", "b">>]
      [] tok = "P_blank" -> [kind |-> "list", steps |-> <<"", "s2">>]
      [] OTHER -> SimpleTask

\* brain.py 75-85
GetPlan(plan_str) ==
    LET json_str == IF ContainsJsonFence(plan_str)
                    THEN Strip(BeforeFirstFence(AfterFirstJsonFence(plan_str)))
                    ELSE plan_str
        loaded == JsonLoads(json_str)
    IN IF loaded.raised \/ loaded.value.t # "dict" THEN SimpleTask
       ELSE PlanField(loaded.value.tok)

----------------------------------------------------------------------------
(* The code executor: src/core/tools/code_executor.py                      *)
(*                                                                         *)
(* A snippet is a sequence of top-level statements, each of one kind:      *)
(*   "print"      print('o')            writes to standard output          *)
(*   "warn"       re.compile('[[a]')    makes re warn on standard error    *)
(*   "raise"      1/0                   raises an exception                *)
(*   "spin"       while True: pass      runs past the wall-clock bound     *)
(*   "import_ok"  import math                                              *)
(*   "import_bad" import os.path                                           *)
(*   "from_bad"   from os import path                                      *)
(*   "from_rel"   from . import os      node.module is None                *)
(*   "name_bad"   open('f')             a blacklisted bare identifier      *)
(*   "syntax"     x = = 1               a syntax error                     *)
(*   "huge"       ----...----1          nested too deep for ast.parse      *)
(***************************************************************************)

MaxCodeLen == 3

StatementKinds ==
    {"print", "warn", "raise", "spin", "import_ok", "import_bad", "from_bad",
     "from_rel", "name_bad", "syntax", "huge"}

\* code_executor.py 15-19
allowed_modules ==
    {"math", "random", "datetime", "json", "collections", "itertools",
     "functools", "re", "statistics", "numpy", "pandas", "matplotlib",
     "seaborn"}

\* code_executor.py 22-26
forbidden_names ==
    {"eval", "exec", "compile", "__import__", "open", "input", "file", "os",
     "sys", "subprocess", "socket", "urllib"}

\* The ids of the ast.Name nodes of a statement
NameIds(stmt) ==
    CASE stmt = "print" -> {"print"}
      [] stmt = "warn" -> {"re"}
      [] stmt = "name_bad" -> {"open"}
      [] OTHER -> {}

\* alias.name.split('.')[0] of the aliases of an ast.Import statement
ImportNames(stmt) ==
    CASE stmt = "import_ok" -> {"math"}
      [] stmt = "import_bad" -> {"os"}
      [] OTHER -> {}

IsImportFrom(stmt) == stmt \in {"from_bad", "from_rel"}

\* node.module.split('.')[0] of an ast.ImportFrom statement, "" for None
FromModule(stmt) == IF stmt = "from_bad" THEN "os" ELSE ""

\* ast.parse(code): the first statement it cannot handle decides
AstParse(snippet) ==
    LET Bad == {i \in DOMAIN snippet : snippet[i] \in {"syntax", "huge"}} IN
    IF Bad = {} THEN "ok"
    ELSE LET i == CHOOSE k \in Bad : \A m \in Bad : k <= m
         IN IF snippet[i] = "syntax" THEN "SyntaxError" ELSE "MemoryError"

\* code_executor.py 40-47: the import statements the walk returns False for
ForbiddenImports(snippet) ==
    {i \in DOMAIN snippet :
        \/ ImportNames(snippet[i]) \ allowed_modules # {}
        \/ /\ IsImportFrom(snippet[i])
           /\ FromModule(snippet[i]) # ""
           /\ FromModule(snippet[i]) \notin allowed_modules}

\* code_executor.py 35-37: the statements with a forbidden ast.Name
ForbiddenNames(snippet) ==
    {i \in DOMAIN snippet : NameIds(snippet[i]) \cap forbidden_names # {}}

Verdict(raised, is_safe, message) ==
    [raised |-> raised, is_safe |-> is_safe, message |-> message]

\* code_executor.py 28-52.  ast.walk goes breadth first: the statements of
\* the module come before the names inside them.
CheckCodeSafety(snippet) ==
    CASE AstParse(snippet) = "SyntaxError" -> Verdict(FALSE, FALSE, "syntax_error")
      [] AstParse(snippet) = "MemoryError" -> Verdict(TRUE, FALSE, "MemoryError")
      [] OTHER ->
           IF ForbiddenImports(snippet) # {}
           THEN Verdict(FALSE, FALSE, "forbidden_import")
           ELSE IF ForbiddenNames(snippet) # {}
           THEN Verdict(FALSE, FALSE, "forbidden_name")
           ELSE Verdict(FALSE, TRUE, "safe")

\* The result dict of execute()
ExecResult(success, message, output, error) ==
    [success |-> success, message |-> message, output |-> output,
     error |-> error]

NoExecResult == ExecResult(FALSE, "none", <<>>, <<>>)

\* code_executor.py 123-128
RejectedResult(message) ==
    ExecResult(FALSE, "check_failed", <<>>, <<message>>)

\* A result that reports success whatever the error buffer holds
RunResultIgnoringStderr(stdout, stderr) ==
    ExecResult(TRUE, "run_ok", stdout, stderr)

\* code_executor.py 134-147
RunResult(stdout, stderr) ==
    IF stderr # <<>>
    THEN ExecResult(FALSE, "run_error", stdout, stderr)
    ELSE ExecResult(TRUE, "run_ok", stdout, <<>>)

\* code_executor.py 149-155
TimeoutResult == ExecResult(FALSE, "timeout", <<>>, <<"timeout">>)

\* code_executor.py 115-116: what _run_code returns when exec raised
ExceptReturn(stdout, stderr) == [stdout |-> <<>>, stderr |-> <<"traceback">>]

\* The decorator's default: the bound is kept by an alarm signal, and the
\* TimeoutError is raised inside _run_code.
use_signals_default == TRUE

\* code_executor.py 54: the bound is kept by a second process, so the
\* TimeoutError is raised in execute(), not inside _run_code.
use_signals == FALSE

\* code_executor.py 63-71, 99-107: the modules bound in exec_globals
exec_modules ==
    {"math", "random", "datetime", "json", "collections", "itertools",
     "functools", "re", "statistics"}

\* code_executor.py 75-98: the names of exec_globals['__builtins__']
exec_builtins ==
    {"print", "len", "range", "str", "int", "float", "bool", "list", "dict",
     "tuple", "set", "abs", "sum", "min", "max", "sorted", "enumerate", "zip",
     "map", "filter", "round", "pow"}

\* code_executor.py 74-109: the keys of exec_globals
exec_globals == {"__builtins__"} \cup exec_modules

\* An environment in which the import of a whitelisted module goes through
EffectImportAllowed(stmt) ==
    CASE stmt \in {"print", "import_ok"} -> "stdout"
      [] stmt = "warn" -> "stderr"
      [] stmt = "spin" -> "timeout"
      [] OTHER -> "exception"

\* What running one statement under exec_globals does
Effect(stmt) ==
    CASE stmt = "print" -> "stdout"
      [] stmt = "warn" -> "stderr"
      [] stmt = "spin" -> "timeout"
      [] OTHER -> "exception"

ExecutorIdle ==
    /\ code = <<>>
    /\ ex_pc = "idle"
    /\ ex_trace = <<>>
    /\ ip = 0
    /\ stdout_capture = <<>>
    /\ stderr_capture = <<>>
    /\ ran = <<>>
    /\ ex_result = NoExecResult

----------------------------------------------------------------------------
(* The fact store: src/core/tools/knowledge.py                             *)

Keys == {"k1", "k2"}
Values == {"v1", "v2"}

\* What a caller may pass as key or value: "" is the empty string, "nonstr"
\* a value that is not a str.
KeyArgs == Keys \cup {"", "nonstr"}
ValueArgs == Values \cup {"", "nonstr"}

Absent == "absent"

\* A dict of facts: the value of every key, Absent for a key it lacks
EmptyKb == [k \in Keys |-> Absent]

\* KB_FILE: missing, not decodable, a JSON document that is no object (the
\* empty list), or a JSON object of facts
KbFile(state, data) == [state |-> state, data |-> data]
MissingFile == KbFile("missing", EmptyKb)
CorruptFile == KbFile("corrupt", EmptyKb)
NotDictFile == KbFile("notdict", EmptyKb)

\* knowledge.py 8-17: the loaded value; isdict is false for the empty list
LoadKb(file) ==
    CASE file.state = "json" -> [isdict |-> TRUE, data |-> file.data]
      [] file.state = "notdict" -> [isdict |-> FALSE, data |-> EmptyKb]
      [] OTHER -> [isdict |-> TRUE, data |-> EmptyKb]

SaveOutcomes == {"saved", "open_failed", "write_failed"}

\* A save that leaves the file as it was
SaveKbKeepsOld(data, outcome) == kb_file

\* knowledge.py 19-23: the file after _save_kb(data); open(..., 'w') empties
\* the file before json.dump writes
SaveKb(data, outcome) ==
    CASE outcome = "saved" -> KbFile("json", data)
      [] outcome = "open_failed" -> kb_file
      [] OTHER -> CorruptFile

\* The record of one call on the store
KbOp(op, key, value, raised, success, found, facts) ==
    [op |-> op, key |-> key, value |-> value, raised |-> raised,
     success |-> success, found |-> found, facts |-> facts]

NoKbOp == KbOp("none", "", "", FALSE, FALSE, Absent, EmptyKb)

ValidStr(a) == a \notin {"", "nonstr"}

\* knowledge.py 25-40: what remember(key, value) returns and leaves behind
Remember(key, value, outcome) ==
    LET kb == LoadKb(kb_file) IN
    IF ~ValidStr(key) \/ ~ValidStr(value)
    THEN [file |-> kb_file,
          res |-> KbOp("remember", key, value, FALSE, FALSE, Absent, EmptyKb)]
    ELSE IF ~kb.isdict
    THEN [file |-> kb_file,
          res |-> KbOp("remember", key, value, FALSE, FALSE, Absent, EmptyKb)]
    ELSE [file |-> SaveKb([kb.data EXCEPT ![key] = value], outcome),
          res |-> KbOp("remember", key, value, FALSE, outcome = "saved",
                       Absent, EmptyKb)]

\* knowledge.py 42-55
Recall(key) ==
    LET kb == LoadKb(kb_file) IN
    IF ~ValidStr(key)
    THEN KbOp("recall", key, "", FALSE, FALSE, Absent, EmptyKb)
    ELSE IF ~kb.isdict
    THEN KbOp("recall", key, "", TRUE, FALSE, Absent, EmptyKb)
    ELSE KbOp("recall", key, "", FALSE, kb.data[key] # Absent, kb.data[key],
              EmptyKb)

\* A forget that empties the store
ForgetClearsStore(key, outcome) ==
    LET kb == LoadKb(kb_file) IN
    IF ~ValidStr(key) \/ ~kb.isdict \/ kb.data[key] = Absent
    THEN [file |-> kb_file,
          res |-> KbOp("forget", key, "", FALSE, FALSE, Absent, EmptyKb)]
    ELSE [file |-> SaveKb(EmptyKb, outcome),
          res |-> KbOp("forget", key, "", outcome # "saved", outcome = "saved",
                       Absent, EmptyKb)]

\* knowledge.py 57-70
Forget(key, outcome) ==
    LET kb == LoadKb(kb_file) IN
    IF ~ValidStr(key) \/ ~kb.isdict \/ kb.data[key] = Absent
    THEN [file |-> kb_file,
          res |-> KbOp("forget", key, "", FALSE, FALSE, Absent, EmptyKb)]
    ELSE [file |-> SaveKb([kb.data EXCEPT ![key] = Absent], outcome),
          res |-> KbOp("forget", key, "", outcome # "saved", outcome = "saved",
                       Absent, EmptyKb)]

\* knowledge.py 72-80
ListFacts ==
    KbOp("list_facts", "", "", FALSE, TRUE, Absent, LoadKb(kb_file).data)

\* brain.py 22: the snapshot is loaded when the brain is made
StoreIdle ==
    /\ kb_file = MissingFile
    /\ knowledge_base = LoadKb(kb_file).data

KbIdle ==
    /\ StoreIdle
    /\ kb_last = NoKbOp
    /\ kb_prev = NoKbOp

----------------------------------------------------------------------------
(* Web requests: src/core/tools/web_reader.py                              *)

MaxWebRequests == 2

\* os.getenv("PROXY_HTTP"): not set, the empty string, the placeholder of
\* the sample configuration, or the address of a proxy
ProxyEnvs == {"unset", "empty", "your_proxy_address", "proxy"}

\* The url asked for: a .cn host, a .com host, a .cn host with a port
UrlKinds == {"host.cn", "host.com", "host.cn:8080"}

\* What one requests.get(...) followed by raise_for_status() may do
AttemptOutcomes == {"ok", "timeout", "http_error", "connection_error"}

\* web_reader.py 7-15: TRUE when _get_proxies() returns a mapping, not None
GetProxies(env) == env \notin {"unset", "empty", "your_proxy_address"}

\* web_reader.py 17-25: domain.endswith(".cn") is the only test
IsForeignSite(url) == url # "host.cn"

\* web_reader.py 38
UseProxy(env, url) == GetProxies(env) /\ IsForeignSite(url)

\* Every failure taken for a timeout
IsAnyFailure(outcome) == outcome # "ok"

\* web_reader.py 52: except Timeout
IsTimeout(outcome) == outcome = "timeout"

\* A retry whatever the first attempt used
RetryAlways(use_proxy, proxies) == TRUE

\* web_reader.py 54
RetryWithProxy(use_proxy, proxies) == ~use_proxy /\ proxies

Attempt(proxy, outcome) == [proxy |-> proxy, outcome |-> outcome]

WebIdle ==
    /\ web_pc = "idle"
    /\ web_env = "unset"
    /\ web_url = "host.cn"
    /\ attempts = <<>>
    /\ web_result = "none"
    /\ web_count = 0

----------------------------------------------------------------------------
(* The workspace guard and the file capabilities: src/core/tool_manager.py *)
(*                                                                         *)
(* A location is the sequence of the names from the root down.  The        *)
(* process runs in /home, the workspace is /home/ws, and /home/ws2 is a    *)
(* directory beside it.                                                    *)

MaxPathLen == 3

\* The components of a path argument; "/" in front makes it absolute
PathParts == {"..", "a", "ws", "ws2"}

Cwd == <<"home">>

\* tool_manager.py 15-17 with 24: self.workspace.resolve()
Workspace == Cwd \o <<"ws">>

PathArg(abs, parts) == [abs |-> abs, parts |-> parts]

\* Path.resolve(): ".." steps up, but not above the root
RECURSIVE Resolve(_, _)
Resolve(base, parts) ==
    IF parts = <<>> THEN base
    ELSE Resolve(IF Head(parts) = ".."
                 THEN (IF base = <<>> THEN base ELSE SubSeq(base, 1, Len(base) - 1))
                 ELSE Append(base, Head(parts)),
                 Tail(parts))

\* tool_manager.py 24: (self.workspace / path).resolve(); an absolute path
\* replaces the workspace
Target(p) == Resolve(IF p.abs THEN <<>> ELSE Workspace, p.parts)

\* str.startswith on names: "ws2" starts with "ws"
NameStartsWith(name, prefix) ==
    name = prefix \/ (prefix = "ws" /\ name = "ws2")

\* Containment by location: base is target or one of its ancestors
IsInside(target, base) ==
    Len(target) >= Len(base) /\ SubSeq(target, 1, Len(base)) = base

\* tool_manager.py 25: str(target).startswith(str(workspace))
StartsWith(target, base) ==
    /\ Len(target) >= Len(base)
    /\ SubSeq(target, 1, Len(base) - 1) = SubSeq(base, 1, Len(base) - 1)
    /\ NameStartsWith(target[Len(base)], base[Len(base)])

\* tool_manager.py 22-27: the target, or ValueError
GetSafePath(p) ==
    IF StartsWith(Target(p), Workspace)
    THEN [raised |-> FALSE, target |-> Target(p)]
    ELSE [raised |-> TRUE, target |-> <<>>]

\* The capabilities with one path argument, and the two with src and dst
FileCapabilities ==
    {"create_directory", "delete_directory", "create_file", "delete_file",
     "write_file", "read_file", "list_directory", "move_file",
     "move_directory"}

MoveCapabilities == {"move_file", "move_directory"}

\* The other path of a move
OtherPaths == {PathArg(FALSE, <<"a">>), PathArg(FALSE, <<"..", "ws2">>)}

FsResult(success) == [success |-> success]

PathIdle ==
    /\ path_arg = PathArg(FALSE, <<>>)
    /\ fs_pc = "idle"
    /\ fs_touched = {}
    /\ fs_result = FsResult(FALSE)

----------------------------------------------------------------------------
(* Several think() calls on one brain *)

NumSessions == 2

Sessions == 1..NumSessions

\* Each call of think has its own local context
ContextShared(r) == 1

\* brain.py 145, 178: context is a local variable of the call
ContextOf(r) == r

SessIdle ==
    /\ sess_pc = [r \in Sessions |-> "idle"]
    /\ sess_plan = [r \in Sessions |-> <<>>]
    /\ sess_turn = [r \in Sessions |-> 0]
    /\ sess_context = [r \in Sessions |-> <<>>]

----------------------------------------------------------------------------
(* The conversation memory: src/core/memory.py                             *)

\* memory.py 32
max_short_term == 20

MaxMessages == 24

Roles == {"user", "assistant"}

\* memory.py 134-138: a message; its id stands for content and timestamp
Message(id, role) == [id |-> id, role |-> role]

\* memory.py 10-15.  Without numpy the annotations of lines 88 and 128 make
\* the class statement raise NameError (annotations are evaluated when the
\* def runs), so a Memory exists only with numpy.
HAS_NUMPY == TRUE

\* memory.py 113-126: _get_embedding gives a vector, or None when the
\* embedding service failed
EmbeddingOutcomes == {"vector", "None"}

\* memory.py 40, 100: self.embeddings is None, or an array of rows
NoEmbeddings == [none |-> TRUE, rows |-> <<>>]

\* memory.py 162-166: the record made of the two oldest messages
Conversation(old) == [user |-> old[1].id, assistant |-> old[2].id]

MemoryState(short, long, emb, saved) ==
    [short |-> short, long |-> long, emb |-> emb, saved |-> saved]

\* memory.py 149-183: _move_to_long_term on the three attributes; saved
\* tells whether the long-term file and the embeddings file were written
MoveToLongTerm(short, long, emb, outcome) ==
    IF ~HAS_NUMPY
    THEN MemoryState(SubSeq(short, Len(short) - max_short_term + 1, Len(short)),
                     long, emb, FALSE)
    ELSE IF Len(short) < 2 THEN MemoryState(short, long, emb, FALSE)
    ELSE LET old == SubSeq(short, 1, 2)
             rest == SubSeq(short, 3, Len(short))
         IN IF outcome = "vector"
            THEN MemoryState(rest, Append(long, Conversation(old)),
                             [none |-> FALSE,
                              rows |-> Append(emb.rows, Conversation(old))],
                             TRUE)
            ELSE MemoryState(rest, long, emb, FALSE)

\* memory.py 46-56: a short-term file of n messages, as requests that ended
\* well left it
LoadedShortTerm(n) ==
    [i \in 1..n |-> Message(i, IF i % 2 = 1 THEN "user" ELSE "assistant")]

MemoryFiles(short, long, emb) == [short |-> short, long |-> long, emb |-> emb]

MemIdle ==
    /\ short_term_memory = <<>>
    /\ long_term_memory = <<>>
    /\ embeddings = NoEmbeddings
    /\ memory_files = MemoryFiles(<<>>, <<>>, NoEmbeddings)
    /\ mem_count = 0

----------------------------------------------------------------------------
(* Learning a capability: src/core/evolution_controller.py                 *)

CapabilityNames == {"n1", "n2", "n3"}

Capability(name, status) == [name |-> name, status |-> status]

\* capability_manager.py 59-64, as the truth value line 37 tests
GetCapability(name) ==
    \E i \in DOMAIN capabilities : capabilities[i].name = name

\* capability_manager.py 28-47
AddCapability(name, status) ==
    IF GetCapability(name) THEN capabilities
    ELSE Append(capabilities, Capability(name, status))

\* capability_manager.py 49-57: the first entry of that name gets the status
UpdateCapabilityStatus(name, status) ==
    IF ~GetCapability(name) THEN capabilities
    ELSE LET Hits == {i \in DOMAIN capabilities : capabilities[i].name = name}
             i == CHOOSE k \in Hits : \A m \in Hits : k <= m
         IN [capabilities EXCEPT ![i].status = status]

\* sandbox_tester.py 108-126: the stage at which run_full_test fails, or pass
TestOutcomes == {"syntax", "import", "execution", "pass"}

RunFullTest(outcome) == outcome = "pass"

\* A controller that activates a capability only when it was committed
StatusNeedsCommit(commit_success) ==
    IF commit_success THEN "active" ELSE "tested"

\* evolution_controller.py 122-138: the status after the commit was tried
StatusAfterCommit(commit_success) == "active"

EvoIdle ==
    /\ capabilities = <<>>
    /\ evo_pc = "idle"
    /\ evo_name = ""
    /\ evo_result = FALSE
    /\ evo_log = <<>>
    /\ evo_hist = [n \in CapabilityNames |-> <<>>]

----------------------------------------------------------------------------
(* Concurrent calls on the fact store                                      *)

RaceValue(key) == IF key = "k1" THEN "v1" ELSE "v2"

RaceOps == [op : {"remember", "forget"}, key : Keys]

NoRaceOp == [op |-> "none", key |-> ""]

RaceIdle ==
    /\ race_pc = [r \in Sessions |-> "idle"]
    /\ race_op = [r \in Sessions |-> NoRaceOp]
    /\ race_kb = [r \in Sessions |-> EmptyKb]
    /\ race_res = [r \in Sessions |-> FALSE]

LateIdle == MemIdle /\ EvoIdle /\ RaceIdle

AsideIdle == KbIdle /\ WebIdle /\ PathIdle /\ SessIdle /\ LateIdle

----------------------------------------------------------------------------
(* What the model service may answer *)

LLMFail == <<"!">>

ExecutorResponses ==
    { <<>>, <<"w">>, <<"[", "]">>, <<"zero">>, <<"O_mkdir">>,
      <<"[", "O_unknown", ",", "O_badargs", "]">>, <<"{", "}">>,
      <<"F", "J", "sp", "[", "O_remember", "]", "sp", "F">>,
      <<"F", "[", "O_mkdir", "]", "F">>, <<"num">>, <<"[", "num", "]">>,
      <<"O_nonmap">>, <<"O_noparams">>, <<"O_run">>, <<"str">> }

PlannerResponses ==
    { <<"P_simple">>, <<"F", "J", "P_two", "F">>, <<"P_empty">>, <<"P_num">>,
      <<"P_other">>, <<"w">>, <<"[", "]">>, <<"P_blank">>, <<"O_mkdir">>,
      <<"F", "P_two", "F">> }

ReflectResponses ==
    { <<"[", "]">>, <<"F", "J", "[", "O_remember", "]", "F">>,
      <<"[", "O_mkdir", ",", "O_remember", "]">>, <<"w">>, <<"[", "num", "]">> }

SummaryResponses == { <<"w">>, <<>> }

----------------------------------------------------------------------------
(* The fact snapshot after a dispatch *)

\* brain.py 167-171 (no reload), 106-108, 232-233: whether the code behind
\* the dispatch of action reloads self.knowledge_base
ReloadsSnapshot(site, action, success) ==
    CASE site = "step" -> action \in {"remember", "forget"} /\ success
      [] site = "reflect" -> action = "remember" /\ success
      [] OTHER -> FALSE

\* The store after the dispatch that gave r: a remember that was invoked
\* and reported success has written its fact
StoreAfter(r) ==
    IF r.invoked = <<"remember">> /\ r.result.success
    THEN Remember("k1", "v1", "saved").file
    ELSE kb_file

DispatchStore(site, action, r) ==
    IF r.raised THEN UNCHANGED store_vars
    ELSE /\ kb_file' = StoreAfter(r)
         /\ knowledge_base' =
               IF ReloadsSnapshot(site, action, r.result.success)
               THEN LoadKb(StoreAfter(r)).data
               ELSE knowledge_base

----------------------------------------------------------------------------
(* AtlasBrain.think *)

\* brain.py 147
max_turns == 5

MaxRequests == 2

Text(s) == [kind |-> "text", text |-> s]
Inconclusive == [kind |-> "inconclusive", text |-> <<>>]
NoAnswer == [kind |-> "nothing", text |-> <<>>]

\* not final_answer, for the str final_answer
EmptyAnswer(a) == a.kind = "text" /\ a.text = <<>>

BrainInit ==
    /\ pc = "idle"
    /\ requests = 0
    /\ plan = SimpleTask
    /\ turn = 0
    /\ response = <<>>
    /\ tool_calls = NoneVal
    /\ idx = 0
    /\ context = <<>>
    /\ step_results = <<>>
    /\ results = <<>>
    /\ final_answer = Text(<<>>)
    /\ model_calls = <<>>
    /\ dispatches = <<>>
    /\ invoked = <<>>
    /\ exc = ""
    /\ memory_log = <<>>
    /\ answer = NoAnswer

ParserIdle ==
    /\ parser_text = <<>>
    /\ parser_pc = "idle"
    /\ parser_result = [raised |-> FALSE, value |-> NoneVal]

Init == BrainInit /\ ParserIdle /\ ExecutorIdle /\ AsideIdle

\* think() unwinds with exception e.
Raised(e) ==
    /\ pc' = "raised"
    /\ exc' = e

\* A caller invokes think(user_input) on the brain.
StartRequest ==
    /\ pc \in {"idle", "done", "raised"}
    /\ requests < MaxRequests
    /\ requests' = requests + 1
    /\ pc' = "plan"
    /\ plan' = SimpleTask
    /\ turn' = 0
    /\ response' = <<>>
    /\ tool_calls' = NoneVal
    /\ idx' = 0
    /\ context' = <<>>
    /\ step_results' = <<>>
    /\ results' = <<>>
    /\ final_answer' = Text(<<>>)
    /\ model_calls' = <<>>
    /\ dispatches' = <<>>
    /\ invoked' = <<>>
    /\ exc' = ""
    /\ answer' = NoAnswer
    /\ UNCHANGED <<memory_log, parser_vars, executor_vars,
                   aside_vars, store_vars>>

\* brain.py 136-147, 178-180: plan, log the user message, pick the mode
PlanCall ==
    /\ pc = "plan"
    /\ \E r \in PlannerResponses \cup {LLMFail} :
         /\ model_calls' = Append(model_calls, "plan")
         /\ response' = r
         /\ IF r = LLMFail
            THEN /\ Raised("LLMError")
                 /\ UNCHANGED <<plan, memory_log>>
            ELSE /\ plan' = GetPlan(r)
                 /\ memory_log' = Append(memory_log, [role |-> "user", req |-> requests])
                 /\ IF plan'.kind = "simple" THEN pc' = "loop" /\ exc' = exc
                    ELSE IF plan'.kind = "num" THEN Raised("TypeError")
                    ELSE IF Len(plan'.steps) = 0 THEN pc' = "summarize" /\ exc' = exc
                    ELSE pc' = "step" /\ exc' = exc
    /\ UNCHANGED <<requests, turn, tool_calls, idx, context, step_results,
                   results, final_answer, dispatches, invoked, answer, parser_vars, executor_vars,
                   aside_vars, store_vars>>

\* brain.py 149-164: one round of the single-shot loop up to the parse
LoopRound ==
    /\ pc = "loop"
    /\ turn < max_turns
    /\ \E r \in ExecutorResponses \cup {LLMFail} :
         /\ turn' = turn + 1
         /\ model_calls' = Append(model_calls, "loop")
         /\ response' = r
         /\ IF r = LLMFail
            THEN /\ Raised("LLMError")
                 /\ UNCHANGED <<tool_calls, idx, final_answer>>
            ELSE /\ tool_calls' = ParseToolCall(r).value
                 /\ exc' = exc
                 /\ IF ~Truthy(tool_calls')
                    THEN /\ final_answer' = Text(r)
                         /\ pc' = "after_loop"
                         /\ idx' = idx
                    ELSE /\ pc' = "dispatch"
                         /\ idx' = 1
                         /\ final_answer' = final_answer
    /\ UNCHANGED <<requests, plan, context, step_results, results, dispatches,
                   invoked, memory_log, answer, parser_vars, executor_vars,
                   aside_vars, store_vars>>

\* The element the for loop over tool_calls yields at position i; iterating a
\* number raises TypeError, iterating a str yields one-character strs.
IterRaises(v) == v.t \notin {"list", "str"}
IterLen(v) == IF v.t = "list" THEN Len(v.items) ELSE 1
IterItem(v, i) == IF v.t = "list" THEN v.items[i] ELSE StrVal

ContextEntry(n, what, r) == [round |-> n, what |-> what, result |-> r]

\* brain.py 167-171: one iteration of the for loop over tool_calls
LoopDispatch ==
    /\ pc = "dispatch"
    /\ IF IterRaises(tool_calls)
       THEN /\ Raised("TypeError")
            /\ UNCHANGED <<turn, idx, context, dispatches, invoked, store_vars>>
       ELSE LET tc == IterItem(tool_calls, idx) IN
            IF tc.t # "dict"
            THEN /\ Raised("AttributeError")
                 /\ UNCHANGED <<turn, idx, context, dispatches, invoked,
                                store_vars>>
            ELSE \E o \in CapabilityOutcomes(ActionOf(tc.tok)) :
                   LET r == ExecuteTool(tc.tok, o) IN
                   /\ DispatchStore("loop", ActionOf(tc.tok), r)
                   /\ dispatches' = Append(dispatches,
                          DispatchRecord(turn, tc, o, r))
                   /\ invoked' = invoked \o r.invoked
                   /\ IF r.raised
                      THEN /\ Raised(r.exc)
                           /\ UNCHANGED <<turn, idx, context>>
                      ELSE /\ context' = Append(context,
                                  ContextEntry(turn, ActionOf(tc.tok), r.result))
                           /\ exc' = exc
                           /\ turn' = turn
                           /\ IF idx < IterLen(tool_calls)
                              THEN idx' = idx + 1 /\ pc' = "dispatch"
                              ELSE /\ idx' = 0
                                   /\ pc' = IF turn < max_turns THEN "loop"
                                            ELSE "after_loop"
    /\ UNCHANGED <<requests, plan, response, tool_calls, step_results, results,
                   final_answer, model_calls, memory_log, answer, parser_vars,
                   executor_vars, aside_vars>>

\* brain.py 173-175, 196: the loop is over; fix and log the final answer
AfterLoop ==
    /\ pc = "after_loop"
    /\ final_answer' = IF EmptyAnswer(final_answer) THEN Inconclusive
                       ELSE final_answer
    /\ memory_log' = Append(memory_log, [role |-> "assistant", req |-> requests])
    /\ pc' = "reflect"
    /\ UNCHANGED <<requests, plan, turn, response, tool_calls, idx, context,
                   step_results, results, model_calls, dispatches, invoked,
                   exc, answer, parser_vars, executor_vars,
                   aside_vars, store_vars>>

\* brain.py 98-100: the result of a step whose reply holds no actions
NoToolResult(r) ==
    [success |-> TRUE, message |-> "no_tool", name |-> "", output |-> r]

\* brain.py 188-189: record a step's result and pass on to the next step
StepDone(n, r) ==
    /\ step_results' = Append(step_results, [step |-> plan.steps[n], result |-> r])
    /\ context' = Append(context, ContextEntry(n, plan.steps[n], r))
    /\ pc' = IF n < Len(plan.steps) THEN "step" ELSE "summarize"

\* brain.py 182-190 with _execute_step 87-100: one plan step up to the parse
StepCall ==
    /\ pc = "step"
    /\ turn < Len(plan.steps)
    /\ \E r \in ExecutorResponses \cup {LLMFail} :
         /\ turn' = turn + 1
         /\ model_calls' = Append(model_calls, "step")
         /\ response' = r
         /\ results' = <<>>
         /\ IF r = LLMFail
            THEN /\ Raised("LLMError")
                 /\ UNCHANGED <<tool_calls, idx, context, step_results>>
            ELSE /\ tool_calls' = ParseToolCall(r).value
                 /\ exc' = exc
                 /\ IF ~Truthy(tool_calls')
                    THEN /\ StepDone(turn', NoToolResult(r))
                         /\ idx' = idx
                    ELSE /\ pc' = "step_dispatch"
                         /\ idx' = 1
                         /\ UNCHANGED <<context, step_results>>
    /\ UNCHANGED <<requests, plan, final_answer, dispatches, invoked,
                   memory_log, answer, parser_vars, executor_vars,
                   aside_vars, store_vars>>

\* _execute_step 102-114: one iteration of the for loop over tool_calls; after
\* the last one the step's result is results[0]
StepDispatch ==
    /\ pc = "step_dispatch"
    /\ IF IterRaises(tool_calls)
       THEN /\ Raised("TypeError")
            /\ UNCHANGED <<idx, context, step_results, results, dispatches,
                           invoked, store_vars>>
       ELSE LET tc == IterItem(tool_calls, idx) IN
            \E o \in (IF tc.t = "dict" THEN CapabilityOutcomes(ActionOf(tc.tok))
                      ELSE {"ok"}) :
              LET r == ExecuteToolValue(tc, o) IN
              /\ DispatchStore("step", ActionOf(tc.tok), r)
              /\ dispatches' = Append(dispatches,
                     DispatchRecord(turn, tc, o, r))
              /\ invoked' = invoked \o r.invoked
              /\ IF r.raised
                 THEN /\ Raised(r.exc)
                      /\ UNCHANGED <<idx, context, step_results, results>>
                 ELSE /\ results' = Append(results, r.result)
                      /\ exc' = exc
                      /\ IF idx < IterLen(tool_calls)
                         THEN /\ idx' = idx + 1
                              /\ pc' = "step_dispatch"
                              /\ UNCHANGED <<context, step_results>>
                         ELSE /\ idx' = 0
                              /\ StepDone(turn, results'[1])
    /\ UNCHANGED <<requests, plan, turn, response, tool_calls, final_answer,
                   model_calls, memory_log, answer, parser_vars, executor_vars,
                   aside_vars>>

\* brain.py 192-196 with _summarize_results 116-126
Summarize ==
    /\ pc = "summarize"
    /\ \E r \in SummaryResponses \cup {LLMFail} :
         /\ model_calls' = Append(model_calls, "summary")
         /\ response' = r
         /\ IF r = LLMFail
            THEN /\ Raised("LLMError")
                 /\ UNCHANGED <<final_answer, memory_log>>
            ELSE /\ final_answer' = Text(r)
                 /\ memory_log' = Append(memory_log,
                        [role |-> "assistant", req |-> requests])
                 /\ pc' = "reflect"
                 /\ exc' = exc
    /\ UNCHANGED <<requests, plan, turn, tool_calls, idx, context, step_results,
                   results, dispatches, invoked, answer, parser_vars, executor_vars,
                   aside_vars, store_vars>>

\* brain.py 202: think returns
ReturnAnswer ==
    /\ pc' = "done"
    /\ answer' = final_answer

\* brain.py 200 with _reflection_step 204-226: the reflection call and parse
ReflectCall ==
    /\ pc = "reflect"
    /\ \E r \in ReflectResponses \cup {LLMFail} :
         /\ model_calls' = Append(model_calls, "reflect")
         /\ response' = r
         /\ IF r = LLMFail
            THEN /\ Raised("LLMError")
                 /\ UNCHANGED <<tool_calls, idx, answer>>
            ELSE /\ tool_calls' = ParseToolCall(r).value
                 /\ exc' = exc
                 /\ IF ~Truthy(tool_calls')
                    THEN ReturnAnswer /\ idx' = idx
                    ELSE pc' = "reflect_dispatch" /\ idx' = 1 /\ answer' = answer
    /\ UNCHANGED <<requests, plan, turn, context, step_results, results,
                   final_answer, dispatches, invoked, memory_log, parser_vars, executor_vars,
                   aside_vars, store_vars>>

\* A reflection that dispatches every action of the reply
ReflectSelectsAll(action) == TRUE

\* brain.py 229: tool_call.get("action") == "remember"
ReflectSelects(action) == action = "remember"

\* _reflection_step 228-238: one iteration of the for loop over tool_calls
ReflectDispatch ==
    /\ pc = "reflect_dispatch"
    /\ IF IterRaises(tool_calls)
       THEN /\ Raised("TypeError")
            /\ UNCHANGED <<idx, dispatches, invoked, answer, store_vars>>
       ELSE LET tc == IterItem(tool_calls, idx)
                more == idx < IterLen(tool_calls)
            IN
            IF tc.t # "dict"
            THEN /\ Raised("AttributeError")
                 /\ UNCHANGED <<idx, dispatches, invoked, answer, store_vars>>
            ELSE IF ~ReflectSelects(ActionOf(tc.tok))
            THEN /\ exc' = exc
                 /\ UNCHANGED <<dispatches, invoked, store_vars>>
                 /\ IF more THEN idx' = idx + 1 /\ pc' = pc /\ answer' = answer
                    ELSE idx' = 0 /\ ReturnAnswer
            ELSE \E o \in CapabilityOutcomes(ActionOf(tc.tok)) :
                   LET r == ExecuteTool(tc.tok, o) IN
                   /\ DispatchStore("reflect", ActionOf(tc.tok), r)
                   /\ dispatches' = Append(dispatches,
                          DispatchRecord(0, tc, o, r))
                   /\ invoked' = invoked \o r.invoked
                   /\ IF r.raised
                      THEN /\ Raised(r.exc)
                           /\ UNCHANGED <<idx, answer>>
                      ELSE /\ exc' = exc
                           /\ IF more
                              THEN idx' = idx + 1 /\ pc' = pc /\ answer' = answer
                              ELSE idx' = 0 /\ ReturnAnswer
    /\ UNCHANGED <<requests, plan, turn, response, tool_calls, context,
                   step_results, results, final_answer, model_calls,
                   memory_log, parser_vars, executor_vars, aside_vars>>

Next ==
    \/ StartRequest
    \/ PlanCall
    \/ LoopRound
    \/ LoopDispatch
    \/ AfterLoop
    \/ StepCall
    \/ StepDispatch
    \/ Summarize
    \/ ReflectCall
    \/ ReflectDispatch

Spec == Init /\ [][Next]_vars

----------------------------------------------------------------------------
(* SpecParser: every text of at most MaxTextLen lexemes is parsed *)

ParserAlphabet ==
    {"F", "J", "w", "sp", "[", "]", "{", "}", ",", "num", "null", "O_mkdir"}

InitParser ==
    /\ parser_text = <<>>
    /\ parser_pc = "build"
    /\ parser_result = [raised |-> FALSE, value |-> NoneVal]
    /\ BrainInit
    /\ ExecutorIdle
    /\ AsideIdle

\* Lexemes made of letters or digits: two of them in a row are one word.
WordLike == {"J", "w", "num", "null"}

\* The model service produces one more lexeme of its reply.
ParserAppend ==
    /\ parser_pc = "build"
    /\ Len(parser_text) < MaxTextLen
    /\ \E c \in ParserAlphabet :
         /\ ~(/\ c \in WordLike
              /\ parser_text # <<>>
              /\ parser_text[Len(parser_text)] \in WordLike)
         /\ parser_text' = Append(parser_text, c)
    /\ UNCHANGED <<parser_pc, parser_result, brain_vars, executor_vars,
                   aside_vars, store_vars>>

\* _parse_tool_call(parser_text)
ParserParse ==
    /\ parser_pc = "build"
    /\ parser_result' = ParseToolCall(parser_text)
    /\ parser_pc' = "parsed"
    /\ UNCHANGED <<parser_text, brain_vars, executor_vars,
                   aside_vars, store_vars>>

NextParser == ParserAppend \/ ParserParse

SpecParser == InitParser /\ [][NextParser]_vars

----------------------------------------------------------------------------
(* SpecExecutor: every snippet of at most MaxCodeLen statements is executed *)

InitExecutor == BrainInit /\ ParserIdle /\ ExecutorIdle /\ AsideIdle

\* The caller writes one more statement of the snippet.
SnippetAppend ==
    /\ ex_pc = "idle"
    /\ Len(code) < MaxCodeLen
    /\ \E stmt \in StatementKinds : code' = Append(code, stmt)
    /\ UNCHANGED <<ex_pc, ex_trace, ip, stdout_capture, stderr_capture, ran,
                   ex_result, parser_vars, brain_vars,
                   aside_vars, store_vars>>

\* code_executor.py 118-128: execute(code) up to the verdict of the check
Execute ==
    /\ ex_pc = "idle"
    /\ LET v == CheckCodeSafety(code) IN
       IF v.raised
       THEN /\ ex_pc' = "raised"
            /\ ex_trace' = <<"Received", "StaticCheck">>
            /\ ex_result' = ex_result
       ELSE IF ~v.is_safe
       THEN /\ ex_pc' = "Rejected"
            /\ ex_trace' = <<"Received", "StaticCheck", "Rejected">>
            /\ ex_result' = RejectedResult(v.message)
       ELSE /\ ex_pc' = "Accepted"
            /\ ex_trace' = <<"Received", "StaticCheck", "Accepted">>
            /\ ex_result' = ex_result
    /\ UNCHANGED <<code, ip, stdout_capture, stderr_capture, ran,
                   parser_vars, brain_vars,
                   aside_vars, store_vars>>

\* code_executor.py 132, 57-61: _run_code is entered, the buffers are made
RunCode ==
    /\ ex_pc = "Accepted"
    /\ ex_pc' = "Run"
    /\ ex_trace' = Append(ex_trace, "Run")
    /\ ip' = 1
    /\ stdout_capture' = <<>>
    /\ stderr_capture' = <<>>
    /\ UNCHANGED <<code, ran, ex_result, parser_vars, brain_vars,
                   aside_vars, store_vars>>

\* execute() returns r at the end of a run
Finish(stage, r) ==
    /\ ex_pc' = stage
    /\ ex_trace' = Append(ex_trace, stage)
    /\ ex_result' = r

\* code_executor.py 111-116 and 134-155: exec runs the next statement of the
\* snippet, or is through and execute() builds the result
RunStep ==
    /\ ex_pc = "Run"
    /\ IF ip > Len(code)
       THEN /\ LET r == RunResult(stdout_capture, stderr_capture) IN
               Finish(IF r.success THEN "Completed" ELSE "RuntimeError", r)
            /\ UNCHANGED <<ip, stdout_capture, stderr_capture, ran>>
       ELSE /\ ran' = Append(ran, ip)
            /\ CASE Effect(code[ip]) = "stdout" ->
                      /\ stdout_capture' = Append(stdout_capture, "o")
                      /\ ip' = ip + 1
                      /\ UNCHANGED <<ex_pc, ex_trace, ex_result, stderr_capture>>
                 [] Effect(code[ip]) = "stderr" ->
                      /\ stderr_capture' = Append(stderr_capture, "e")
                      /\ ip' = ip + 1
                      /\ UNCHANGED <<ex_pc, ex_trace, ex_result, stdout_capture>>
                 [] Effect(code[ip]) = "timeout" /\ ~use_signals ->
                      /\ Finish("TimedOut", TimeoutResult)
                      /\ UNCHANGED <<ip, stdout_capture, stderr_capture>>
                 [] OTHER ->
                      LET ret == ExceptReturn(stdout_capture, stderr_capture) IN
                      /\ Finish("RuntimeError", RunResult(ret.stdout, ret.stderr))
                      /\ UNCHANGED <<ip, stdout_capture, stderr_capture>>
    /\ UNCHANGED <<code, parser_vars, brain_vars,
                   aside_vars, store_vars>>

NextExecutor == SnippetAppend \/ Execute \/ RunCode \/ RunStep

SpecExecutor == InitExecutor /\ [][NextExecutor]_vars

----------------------------------------------------------------------------
(* SpecKB: calls on the fact store, in one process *)

InitKB ==
    /\ BrainInit /\ ParserIdle /\ ExecutorIdle
    /\ WebIdle /\ PathIdle /\ SessIdle /\ LateIdle
    /\ kb_file \in {MissingFile, CorruptFile, NotDictFile, KbFile("json", EmptyKb)}
    /\ knowledge_base = LoadKb(kb_file).data
    /\ kb_last = NoKbOp
    /\ kb_prev = NoKbOp

\* The call that gave res has returned or raised.
KbReturn(res) ==
    /\ kb_prev' = kb_last
    /\ kb_last' = res
    /\ UNCHANGED <<knowledge_base, parser_vars, brain_vars, executor_vars,
                   web_vars, path_vars, sess_vars, late_vars>>

KbRemember ==
    \E key \in KeyArgs, value \in ValueArgs, outcome \in SaveOutcomes :
       /\ kb_file' = Remember(key, value, outcome).file
       /\ KbReturn(Remember(key, value, outcome).res)

KbRecall ==
    \E key \in KeyArgs :
       /\ kb_file' = kb_file
       /\ KbReturn(Recall(key))

KbForget ==
    \E key \in KeyArgs, outcome \in SaveOutcomes :
       /\ kb_file' = Forget(key, outcome).file
       /\ KbReturn(Forget(key, outcome).res)

KbListFacts ==
    /\ kb_file' = kb_file
    /\ KbReturn(ListFacts)

NextKB == KbRemember \/ KbRecall \/ KbForget \/ KbListFacts

SpecKB == InitKB /\ [][NextKB]_vars

----------------------------------------------------------------------------
(* SpecWeb: calls of _make_request *)

InitWeb ==
    /\ BrainInit /\ ParserIdle /\ ExecutorIdle
    /\ KbIdle /\ PathIdle /\ SessIdle /\ LateIdle
    /\ WebIdle

web_others ==
    <<parser_vars, brain_vars, executor_vars, store_vars, kbop_vars,
      path_vars, sess_vars, late_vars>>

\* web_reader.py 27-38: a capability calls _make_request(url)
MakeRequest ==
    /\ web_pc \in {"idle", "returned", "raised"}
    /\ web_count < MaxWebRequests
    /\ web_count' = web_count + 1
    /\ \E env \in ProxyEnvs, url \in UrlKinds :
          web_env' = env /\ web_url' = url
    /\ web_pc' = "first"
    /\ attempts' = <<>>
    /\ web_result' = "none"
    /\ UNCHANGED web_others

\* web_reader.py 40-66 up to the retry: the first attempt and what follows
FirstAttempt ==
    /\ web_pc = "first"
    /\ \E outcome \in AttemptOutcomes :
         LET use_proxy == UseProxy(web_env, web_url) IN
         /\ attempts' = Append(attempts, Attempt(use_proxy, outcome))
         /\ IF outcome = "ok"
            THEN web_pc' = "returned" /\ web_result' = "response"
            ELSE IF IsTimeout(outcome)
            THEN IF RetryWithProxy(use_proxy, GetProxies(web_env))
                 THEN web_pc' = "retry" /\ web_result' = web_result
                 ELSE web_pc' = "raised" /\ web_result' = "RequestException"
            ELSE web_pc' = "raised" /\ web_result' = "RequestException"
    /\ UNCHANGED <<web_env, web_url, web_count, web_others>>

\* web_reader.py 56-61: the second attempt, through the proxy
SecondAttempt ==
    /\ web_pc = "retry"
    /\ \E outcome \in AttemptOutcomes :
         /\ attempts' = Append(attempts, Attempt(GetProxies(web_env), outcome))
         /\ IF outcome = "ok"
            THEN web_pc' = "returned" /\ web_result' = "response"
            ELSE web_pc' = "raised" /\ web_result' = "RequestException"
    /\ UNCHANGED <<web_env, web_url, web_count, web_others>>

NextWeb == MakeRequest \/ FirstAttempt \/ SecondAttempt

SpecWeb == InitWeb /\ [][NextWeb]_vars

----------------------------------------------------------------------------
(* SpecPath: a file capability is called with a path of at most MaxPathLen *)
(* components                                                              *)

InitPath ==
    /\ BrainInit /\ ParserIdle /\ ExecutorIdle
    /\ KbIdle /\ WebIdle /\ SessIdle /\ LateIdle
    /\ path_arg \in {PathArg(FALSE, <<>>), PathArg(TRUE, <<>>)}
    /\ fs_pc = "build"
    /\ fs_touched = {}
    /\ fs_result = FsResult(FALSE)

path_others ==
    <<parser_vars, brain_vars, executor_vars, store_vars, kbop_vars,
      web_vars, sess_vars, late_vars>>

\* The caller writes one more component of the path.
PathAppend ==
    /\ fs_pc = "build"
    /\ Len(path_arg.parts) < MaxPathLen
    /\ \E part \in PathParts :
         path_arg' = [path_arg EXCEPT !.parts = Append(@, part)]
    /\ UNCHANGED <<fs_pc, fs_touched, fs_result, path_others>>

\* tool_manager.py 69-170: a capability with one path argument, or a move
\* from path_arg to another path; os_ok tells whether the file system did
\* what was asked
FileCall ==
    /\ fs_pc = "build"
    /\ fs_pc' = "done"
    /\ \E cap \in FileCapabilities, other \in OtherPaths, os_ok \in BOOLEAN :
         LET first == GetSafePath(path_arg)
             second == IF cap \in MoveCapabilities THEN GetSafePath(other)
                       ELSE first
         IN IF first.raised \/ second.raised
            THEN /\ fs_touched' = {}
                 /\ fs_result' = FsResult(FALSE)
            ELSE /\ fs_touched' = {first.target, second.target}
                 /\ fs_result' = FsResult(os_ok)
    /\ UNCHANGED <<path_arg, path_others>>

NextPath == PathAppend \/ FileCall

SpecPath == InitPath /\ [][NextPath]_vars

----------------------------------------------------------------------------
(* SpecSessions: NumSessions calls of think() on one brain, interleaved *)

InitSessions ==
    /\ BrainInit /\ ParserIdle /\ ExecutorIdle
    /\ KbIdle /\ WebIdle /\ PathIdle
    /\ SessIdle /\ LateIdle

sess_others ==
    <<parser_vars, brain_vars, executor_vars, store_vars, kbop_vars,
      web_vars, path_vars, late_vars>>

SessEntry(r, n, what) == [req |-> r, round |-> n, what |-> what]

\* brain.py 128-136: a caller invokes think() for request r
SessStart(r) ==
    /\ sess_pc[r] \in {"idle", "done", "raised"}
    /\ sess_pc' = [sess_pc EXCEPT ![r] = "plan"]
    /\ sess_turn' = [sess_turn EXCEPT ![r] = 0]
    /\ UNCHANGED <<sess_plan, sess_context, sess_others>>

\* brain.py 137-146, 176-179: the plan, the mode and the fresh context
SessPlan(r) ==
    /\ sess_pc[r] = "plan"
    /\ \E reply \in {<<"P_simple">>, <<"P_two">>, LLMFail} :
         IF reply = LLMFail
         THEN /\ sess_pc' = [sess_pc EXCEPT ![r] = "raised"]
              /\ UNCHANGED <<sess_plan, sess_context>>
         ELSE /\ sess_plan' = [sess_plan EXCEPT ![r] = GetPlan(reply).steps]
              /\ sess_context' = [sess_context EXCEPT
                     ![ContextOf(r)] = <<SessEntry(r, 0, "task")>>]
              /\ sess_pc' = [sess_pc EXCEPT
                     ![r] = IF GetPlan(reply).kind = "simple" THEN "loop"
                            ELSE "step"]
    /\ UNCHANGED <<sess_turn, sess_others>>

\* The context and the stage of r after the reply of a round or step was
\* handled: a text ends the loop (the context is left alone) or is the
\* step's result, an action is dispatched and its result appended
SessHandle(r, reply, text_stage, next_stage) ==
    LET calls == ParseToolCall(reply).value
        n == sess_turn[r] + 1
    IN IF ~Truthy(calls)
       THEN /\ sess_pc' = [sess_pc EXCEPT ![r] = text_stage]
            /\ sess_context' =
                  IF text_stage = "reflect" THEN sess_context
                  ELSE [sess_context EXCEPT
                          ![ContextOf(r)] = Append(@, SessEntry(r, n, "text"))]
       ELSE LET res == ExecuteToolValue(calls.items[1], "ok") IN
            IF res.raised
            THEN /\ sess_pc' = [sess_pc EXCEPT ![r] = "raised"]
                 /\ sess_context' = sess_context
            ELSE /\ sess_pc' = [sess_pc EXCEPT ![r] = next_stage]
                 /\ sess_context' = [sess_context EXCEPT
                        ![ContextOf(r)] = Append(@, SessEntry(r, n, "result"))]

\* brain.py 149-171: one round of the single-shot loop of request r
SessRound(r) ==
    /\ sess_pc[r] = "loop"
    /\ sess_turn[r] < max_turns
    /\ sess_turn' = [sess_turn EXCEPT ![r] = @ + 1]
    /\ \E reply \in {<<"w">>, <<"O_mkdir">>, LLMFail} :
         IF reply = LLMFail
         THEN /\ sess_pc' = [sess_pc EXCEPT ![r] = "raised"]
              /\ UNCHANGED sess_context
         ELSE SessHandle(r, reply, "reflect",
                         IF sess_turn[r] + 1 < max_turns THEN "loop"
                         ELSE "reflect")
    /\ UNCHANGED <<sess_plan, sess_others>>

\* brain.py 181-190: one step of the plan of request r
SessStep(r) ==
    /\ sess_pc[r] = "step"
    /\ sess_turn[r] < Len(sess_plan[r])
    /\ sess_turn' = [sess_turn EXCEPT ![r] = @ + 1]
    /\ \E reply \in {<<"w">>, <<"O_mkdir">>, LLMFail} :
         IF reply = LLMFail
         THEN /\ sess_pc' = [sess_pc EXCEPT ![r] = "raised"]
              /\ UNCHANGED sess_context
         ELSE LET stage == IF sess_turn[r] + 1 < Len(sess_plan[r]) THEN "step"
                           ELSE "summarize"
              IN SessHandle(r, reply, stage, stage)
    /\ UNCHANGED <<sess_plan, sess_others>>

\* brain.py 192-202: the summary call, the reflection, the return
SessFinish(r) ==
    /\ sess_pc[r] \in {"summarize", "reflect"}
    /\ \E reply \in {<<"w">>, LLMFail} :
         sess_pc' = [sess_pc EXCEPT
             ![r] = IF reply = LLMFail THEN "raised"
                    ELSE IF sess_pc[r] = "summarize" THEN "reflect"
                    ELSE "done"]
    /\ UNCHANGED <<sess_plan, sess_turn, sess_context, sess_others>>

NextSessions ==
    \E r \in Sessions :
       \/ SessStart(r)
       \/ SessPlan(r)
       \/ SessRound(r)
       \/ SessStep(r)
       \/ SessFinish(r)

SpecSessions == InitSessions /\ [][NextSessions]_vars

----------------------------------------------------------------------------
(* SpecMemory: add_message calls on one Memory *)

\* memory.py 22-40: the three attributes are loaded from their files
InitMemory ==
    /\ BrainInit /\ ParserIdle /\ ExecutorIdle
    /\ KbIdle /\ WebIdle /\ PathIdle /\ SessIdle
    /\ EvoIdle /\ RaceIdle
    /\ \E n \in (max_short_term - 3)..(max_short_term + 1) :
         /\ short_term_memory = LoadedShortTerm(n)
         /\ mem_count = n
    /\ long_term_memory = <<>>
    /\ embeddings = NoEmbeddings
    /\ memory_files = MemoryFiles(short_term_memory, <<>>, NoEmbeddings)

\* memory.py 132-147: add_message(role, content)
AddMessage ==
    /\ mem_count < MaxMessages
    /\ mem_count' = mem_count + 1
    /\ \E role \in Roles, outcome \in EmbeddingOutcomes :
         LET appended == Append(short_term_memory,
                                Message(mem_count + 1, role))
             after == IF Len(appended) > max_short_term
                      THEN MoveToLongTerm(appended, long_term_memory,
                                          embeddings, outcome)
                      ELSE MemoryState(appended, long_term_memory,
                                       embeddings, FALSE)
         IN /\ short_term_memory' = after.short
            /\ long_term_memory' = after.long
            /\ embeddings' = after.emb
            /\ memory_files' =
                  IF after.saved
                  THEN MemoryFiles(appended, after.long, after.emb)
                  ELSE [memory_files EXCEPT !.short = appended]
    /\ UNCHANGED <<parser_vars, brain_vars, executor_vars, store_vars,
                   kbop_vars, web_vars, path_vars, sess_vars, evo_vars,
                   race_vars>>

NextMemory == AddMessage

SpecMemory == InitMemory /\ [][NextMemory]_vars

----------------------------------------------------------------------------
(* SpecEvolution: calls of learn_new_capability on one controller *)

InitEvolution ==
    /\ BrainInit /\ ParserIdle /\ ExecutorIdle
    /\ KbIdle /\ WebIdle /\ PathIdle /\ SessIdle
    /\ MemIdle /\ RaceIdle
    /\ EvoIdle

evo_others ==
    <<parser_vars, brain_vars, executor_vars, store_vars, kbop_vars,
      web_vars, path_vars, sess_vars, mem_vars, race_vars>>

\* The status of name becomes status, in the list and in the history.
SetStatus(name, status) ==
    /\ capabilities' = UpdateCapabilityStatus(name, status)
    /\ evo_hist' = [evo_hist EXCEPT ![name] = Append(@, status)]

\* evolution_controller.py 26-49: the call and the check for a duplicate
LearnCall ==
    /\ evo_pc \in {"idle", "returned"}
    /\ \E name \in CapabilityNames :
         /\ evo_name' = name
         /\ evo_pc' = IF GetCapability(name) THEN "returned" ELSE "generate"
    /\ evo_result' = FALSE
    /\ evo_log' = <<>>
    /\ UNCHANGED <<capabilities, evo_hist, evo_others>>

\* evolution_controller.py 51-87: code generation, then the registration
LearnGenerate ==
    /\ evo_pc = "generate"
    /\ \E generated \in BOOLEAN :
         IF ~generated
         THEN /\ evo_pc' = "returned"
              /\ UNCHANGED <<capabilities, evo_hist, evo_log>>
         ELSE /\ evo_pc' = "test"
              /\ capabilities' = AddCapability(evo_name, "pending")
              /\ evo_log' = Append(evo_log, "registered")
              /\ evo_hist' = [evo_hist EXCEPT ![evo_name] = Append(@, "pending")]
    /\ UNCHANGED <<evo_name, evo_result, evo_others>>

\* evolution_controller.py 89-110: the sandbox test
LearnTest ==
    /\ evo_pc = "test"
    /\ \E outcome \in TestOutcomes :
         IF RunFullTest(outcome)
         THEN /\ SetStatus(evo_name, "tested")
              /\ evo_log' = Append(evo_log, "test_passed")
              /\ evo_pc' = "commit"
         ELSE /\ SetStatus(evo_name, "failed")
              /\ evo_log' = Append(evo_log, "test_failed")
              /\ evo_pc' = "returned"
    /\ UNCHANGED <<evo_name, evo_result, evo_others>>

\* evolution_controller.py 112-140: the commit and the return
LearnCommit ==
    /\ evo_pc = "commit"
    /\ \E commit_success \in BOOLEAN :
         /\ evo_log' = Append(evo_log, IF commit_success THEN "commit_done"
                                       ELSE "commit_failed")
         /\ SetStatus(evo_name, StatusAfterCommit(commit_success))
         /\ evo_result' = (StatusAfterCommit(commit_success) = "active")
    /\ evo_pc' = "returned"
    /\ UNCHANGED <<evo_name, evo_others>>

NextEvolution == LearnCall \/ LearnGenerate \/ LearnTest \/ LearnCommit

SpecEvolution == InitEvolution /\ [][NextEvolution]_vars

----------------------------------------------------------------------------
(* SpecKBRace: every session makes one call on the fact store; the calls  *)
(* interleave between the load and the save                               *)

InitKBRace ==
    /\ BrainInit /\ ParserIdle /\ ExecutorIdle
    /\ WebIdle /\ PathIdle /\ SessIdle
    /\ MemIdle /\ EvoIdle
    /\ kb_file \in {MissingFile, CorruptFile, NotDictFile, KbFile("json", EmptyKb)}
    /\ knowledge_base = LoadKb(kb_file).data
    /\ kb_last = NoKbOp
    /\ kb_prev = NoKbOp
    /\ RaceIdle

race_others ==
    <<parser_vars, brain_vars, executor_vars, knowledge_base, kbop_vars,
      web_vars, path_vars, sess_vars, mem_vars, evo_vars>>

\* knowledge.py 25-32, 57-62: session r calls remember or forget with a key
RaceCall(r) ==
    /\ race_pc[r] = "idle"
    /\ \E op \in RaceOps : race_op' = [race_op EXCEPT ![r] = op]
    /\ race_pc' = [race_pc EXCEPT ![r] = "load"]
    /\ UNCHANGED <<kb_file, race_kb, race_res, race_others>>

\* knowledge.py 35-36, 64-66: kb = _load_kb() and the change of kb
RaceLoad(r) ==
    /\ race_pc[r] = "load"
    /\ LET kb == LoadKb(kb_file)
           key == race_op[r].key
       IN IF ~kb.isdict \/ (race_op[r].op = "forget" /\ kb.data[key] = Absent)
          THEN /\ race_pc' = [race_pc EXCEPT ![r] = "done"]
               /\ UNCHANGED race_kb
          ELSE /\ race_pc' = [race_pc EXCEPT ![r] = "save"]
               /\ race_kb' = [race_kb EXCEPT ![r] =
                     [kb.data EXCEPT ![key] =
                         IF race_op[r].op = "remember" THEN RaceValue(key)
                         ELSE Absent]]
    /\ UNCHANGED <<kb_file, race_op, race_res, race_others>>

\* knowledge.py 37-40, 67-68: _save_kb(kb) and the result
RaceSave(r) ==
    /\ race_pc[r] = "save"
    /\ \E outcome \in SaveOutcomes :
         /\ kb_file' = SaveKb(race_kb[r], outcome)
         /\ race_res' = [race_res EXCEPT ![r] = (outcome = "saved")]
         /\ race_pc' = [race_pc EXCEPT ![r] =
               IF outcome # "saved" /\ race_op[r].op = "forget" THEN "raised"
               ELSE "done"]
    /\ UNCHANGED <<race_op, race_kb, race_others>>

NextKBRace ==
    \E r \in Sessions : RaceCall(r) \/ RaceLoad(r) \/ RaceSave(r)

SpecKBRace == InitKBRace /\ [][NextKBRace]_vars

----------------------------------------------------------------------------
(* Properties: auxiliary definitions *)

\* v is a non-empty list of mappings
IsActionList(v) ==
    /\ v.t = "list"
    /\ Len(v.items) > 0
    /\ \A i \in 1..Len(v.items) : v.items[i].t = "dict"

LastModelCall == IF model_calls = <<>> THEN "" ELSE model_calls[Len(model_calls)]

LoopCallCount == Cardinality({i \in DOMAIN model_calls : model_calls[i] = "loop"})

\* The request failed for another reason than the model service.
Aborted == pc = "raised" /\ exc # "LLMError"

\* The actions the reply of the current round asked for, in list order
RoundActions == [i \in 1..Len(tool_calls.items) |-> ActionOf(tool_calls.items[i].tok)]

RoundTokens == [i \in 1..Len(tool_calls.items) |-> tool_calls.items[i].tok]

EntriesOfRound(n) ==
    LET sel == SelectSeq(context, LAMBDA e : e.round = n)
    IN [i \in 1..Len(sel) |-> sel[i].what]

DispatchesOfRound(n) ==
    LET sel == SelectSeq(dispatches, LAMBDA d : d.round = n)
    IN [i \in 1..Len(sel) |-> sel[i].tok]

Count(s, c) == Cardinality({i \in DOMAIN s : s[i] = c})

\* The part of a reply that lies in its first json-labelled fenced block (from
\* behind the label to the next fence marker or the end), else all of it.
DecodedPortion(s) ==
    IF \E i \in DOMAIN s : JsonFenceAt(s, i)
    THEN LET Opens == {i \in DOMAIN s : JsonFenceAt(s, i)}
             p == CHOOSE i \in Opens : \A k \in Opens : i <= k
             Closes == {k \in (p + 2)..Len(s) : s[k] = "F"} \cup {Len(s) + 1}
             q == CHOOSE k \in Closes : \A m \in Closes : k <= m
         IN SubSeq(s, p + 2, q - 1)
    ELSE s

\* The part of a reply the precedence "labelled block, else any fenced
\* block, else the raw text" picks.
ClaimedPortion(s) ==
    IF \E i \in DOMAIN s : JsonFenceAt(s, i) THEN DecodedPortion(s)
    ELSE IF Count(s, "F") >= 2
    THEN LET Marks == {i \in DOMAIN s : s[i] = "F"}
             p == CHOOSE i \in Marks : \A k \in Marks : i <= k
             q == CHOOSE i \in Marks \ {p} : \A k \in Marks \ {p} : i <= k
         IN SubSeq(s, p + 1, q - 1)
    ELSE s

\* The decoded value of a text, a single object as a one-element list; None
\* when the text is no JSON document.
DecodeOrNone(s) ==
    IF JsonLoads(s).raised THEN NoneVal
    ELSE NormalizeToolCalls(JsonLoads(s).value)

Unbalanced(s) ==
    \/ Count(s, "{") # Count(s, "}")
    \/ Count(s, "[") # Count(s, "]")

\* A JSON document followed by prose.
TrailingProse(s) ==
    \E k \in 1..(Len(s) - 1) :
        /\ ~JsonLoads(SubSeq(s, 1, k)).raised
        /\ \A j \in (k + 1)..Len(s) : s[j] \in {"w", "sp"}
        /\ \E j \in (k + 1)..Len(s) : s[j] = "w"

UnterminatedFence(s) == Count(s, "F") % 2 = 1

\* A labelled fence that opens inside an open fenced block.
NestedFence(s) ==
    \E i \in DOMAIN s :
        /\ JsonFenceAt(s, i)
        /\ Count(SubSeq(s, 1, i - 1), "F") % 2 = 1

----------------------------------------------------------------------------
(* Properties of the single-shot loop and the dispatcher (Spec) *)

\* C1: the single-shot loop makes at most max_turns = 5 rounds, one model
\* call per round; a round whose reply yields well-formed actions never makes
\* think raise, and a loop that ends after a round with actions ends after
\* exactly 5 rounds with the fixed inconclusive answer.
C1_FiveRoundsThenInconclusive ==
    (plan.kind = "simple" /\ LastModelCall = "loop") =>
        /\ turn <= max_turns
        /\ LoopCallCount = turn
        /\ IsActionList(tool_calls) => ~Aborted
        /\ (pc = "reflect" /\ IsActionList(tool_calls)) =>
               (turn = max_turns /\ final_answer = Inconclusive)

\* C2: when the single-shot loop ends in a round whose reply yields no
\* actions, the final answer is that reply's raw text, whatever the text; the
\* inconclusive answer is given only after 5 rounds that all yielded actions.
C2_NoActionsTextIsAnswer ==
    (plan.kind = "simple" /\ pc = "reflect") =>
        /\ ~Truthy(tool_calls) => final_answer = Text(response)
        /\ final_answer = Inconclusive =>
               (Truthy(tool_calls) /\ turn = max_turns)

\* C3: once a single-shot round whose reply yields the actions a1..ak is
\* over, each of them was dispatched once, in order, and the context holds
\* one entry per action, in the same order.
C3_EveryActionDispatchedAndRecorded ==
    (/\ plan.kind = "simple"
     /\ LastModelCall = "loop"
     /\ IsActionList(tool_calls)
     /\ pc # "dispatch"
     /\ exc # "LLMError") =>
        /\ DispatchesOfRound(turn) = RoundTokens
        /\ EntriesOfRound(turn) = RoundActions

\* C4: a dispatch that fails (raises, or reports success false) in a round or
\* plan step does not abort the request; in single-shot mode the failure is
\* an entry of the context.
C4_FailureDoesNotAbort ==
    \A i \in DOMAIN dispatches :
        LET d == dispatches[i] IN
        (d.round > 0 /\ (d.raised \/ ~d.result.success)) =>
            /\ ~Aborted
            /\ plan.kind = "simple" =>
                   \E k \in DOMAIN context :
                       /\ context[k].round = d.round
                       /\ ~context[k].result.success

\* C5: a dispatch of an action name that is not in the mapping (None
\* included) returns the unknown-action failure, invokes nothing and does
\* not raise.
C5_UnknownActionReported ==
    \A i \in DOMAIN dispatches :
        LET d == dispatches[i] IN
        (d.dict /\ ActionOf(d.tok) \notin ToolMapNames) =>
            /\ ~d.raised
            /\ d.result = ActionResult(FALSE, "unknown", ActionOf(d.tok))
            /\ d.invoked = <<>>

\* C6: a dispatch of a known action name returns a result whatever the
\* parameters are and whatever the capability does: it never raises, and it
\* reports success false when the call cannot bind or the capability raises.
C6_DispatcherNeverRaises ==
    \A i \in DOMAIN dispatches :
        LET d == dispatches[i] IN
        (d.dict /\ ActionOf(d.tok) \in ToolMapNames) =>
            /\ ~d.raised
            /\ (~CallBinds(ActionOf(d.tok), ParamsOf(d.tok)) \/ d.outcome = "raise")
                   => ~d.result.success

\* C7: a dispatch of a known action name with parameters that fit invokes
\* that capability exactly once and returns the capability's own result.
C7_InvokedOnceResultUnchanged ==
    \A i \in DOMAIN dispatches :
        LET d == dispatches[i] IN
        (/\ d.dict
         /\ ActionOf(d.tok) \in ToolMapNames
         /\ CallBinds(ActionOf(d.tok), ParamsOf(d.tok))
         /\ d.outcome # "raise") =>
            /\ d.invoked = <<ActionOf(d.tok)>>
            /\ ~d.raised
            /\ d.result = ActionResult(d.outcome = "ok", "capability", ActionOf(d.tok))

----------------------------------------------------------------------------
(* Properties of the response parser (SpecParser) *)

Malformed(s) ==
    Unbalanced(s) \/ TrailingProse(s) \/ UnterminatedFence(s) \/ NestedFence(s)

\* C8, as stated: the parser never raises, and every malformed text
\* (unbalanced braces, JSON followed by prose, a nested or unterminated
\* fence) gives "no actions".
C8_MalformedGivesNoActions ==
    parser_pc = "parsed" =>
        /\ ~parser_result.raised
        /\ Malformed(parser_text) => ~Truthy(parser_result.value)

\* C8, amended: the parser never raises, and it gives "no actions" whenever
\* the part of the text it decodes has unbalanced braces or brackets or is a
\* JSON document followed by prose.
C8_MalformedPortionGivesNoActions ==
    parser_pc = "parsed" =>
        /\ ~parser_result.raised
        /\ (\/ Unbalanced(DecodedPortion(parser_text))
            \/ TrailingProse(DecodedPortion(parser_text)))
               => parser_result.value = NoneVal

C8_Witness ==
    /\ parser_pc = "parsed"
    /\ TrailingProse(DecodedPortion(parser_text))
    /\ ContainsJsonFence(parser_text)
    /\ parser_result = [raised |-> FALSE, value |-> NoneVal]

\* C9, as stated: the decoded text is the labelled block, else any fenced
\* block, else the raw text, so action JSON in a fenced block is extracted.
C9_AnyFencedBlockExtracted ==
    (parser_pc = "parsed" /\ IsActionList(DecodeOrNone(ClaimedPortion(parser_text))))
        => parser_result.value = DecodeOrNone(ClaimedPortion(parser_text))

\* C9, amended: the decoded text is the content of the first json-labelled
\* fenced block if there is one, else the raw text; a block without the
\* label is not looked into.
C9_LabelledBlockElseRawText ==
    parser_pc = "parsed" =>
        parser_result.value = DecodeOrNone(DecodedPortion(parser_text))

C9_Witness ==
    /\ parser_pc = "parsed"
    /\ ContainsJsonFence(parser_text)
    /\ parser_text[1] = "w"
    /\ IsActionList(parser_result.value)

\* C10: the parser's result is "no actions" or a list of mappings, nothing
\* else.
C10_ResultIsNoneOrListOfMappings ==
    parser_pc = "parsed" =>
        \/ parser_result.value = NoneVal
        \/ /\ parser_result.value.t = "list"
           /\ \A i \in 1..Len(parser_result.value.items) :
                  parser_result.value.items[i].t = "dict"

----------------------------------------------------------------------------
(* Properties of the plan stage and of plan mode *)

\* The plan values the planner is asked for: "simple_task" or a list of
\* instruction strings.
PlanValueOK(tok) == tok \in {"P_simple", "P_two", "P_empty", "P_blank"}

\* A planner reply that is not JSON, not an object, has no "plan" field or
\* has a "plan" value of another shape.
InvalidPlanReply(r) ==
    LET d == JsonLoads(DecodedPortion(r))
    IN d.raised \/ d.value.t # "dict" \/ ~PlanValueOK(d.value.tok)

PlanMode == plan.kind = "list"

AfterSteps == pc \in {"summarize", "reflect", "reflect_dispatch", "done"}

\* C11: whenever the planner's reply is invalid (not JSON, not an object, no
\* plan field, or a plan value that is neither "simple_task" nor a list of
\* strings), the plan stage gives SimpleTask without raising and the request
\* goes on in single-shot mode.
C11_InvalidPlanIsSimpleTask ==
    (/\ model_calls = <<"plan">>
     /\ response # LLMFail
     /\ InvalidPlanReply(response))
    => (plan = SimpleTask /\ pc = "loop")

\* C12: in plan mode the request is not aborted, the steps are run once each
\* in list order, step k is started with a context that holds exactly the
\* instructions and results of the steps 1..k-1 in order, and once the steps
\* are over every step has its result.
C12_StepsOnceInOrderContextKept ==
    PlanMode =>
      /\ ~Aborted
      /\ Len(step_results) = Len(context)
      /\ \A j \in DOMAIN context :
            /\ context[j].round = j
            /\ context[j].what = plan.steps[j]
            /\ step_results[j].step = plan.steps[j]
            /\ context[j].result = step_results[j].result
      /\ pc = "step" => Len(context) = turn
      /\ pc = "step_dispatch" => Len(context) = turn - 1
      /\ AfterSteps => Len(step_results) = Len(plan.steps)

\* C13: in plan mode the request is not aborted, its model calls are the
\* plan call, one call per step, then one summary call (then the
\* reflection call), the summary is made once every step has its pair, and
\* the reply of the summary call is the final answer.
C13_OneCallPerStepThenOneSummary ==
    PlanMode =>
      LET n == Len(plan.steps) IN
      /\ ~Aborted
      /\ Len(model_calls) <= n + 3
      /\ \A i \in DOMAIN model_calls :
            model_calls[i] = (CASE i = 1 -> "plan"
                                [] i > 1 /\ i <= n + 1 -> "step"
                                [] i = n + 2 -> "summary"
                                [] OTHER -> "reflect")
      /\ pc = "summarize" =>
            step_results = [j \in 1..n |->
                              [step |-> plan.steps[j], result |-> context[j].result]]
      /\ pc = "reflect" => final_answer = Text(response)
      /\ pc = "done" => answer = final_answer

\* C14: no step of a plan is run with an empty instruction.
C14_NoEmptyStepRun ==
    plan.kind \in {"list", "str"} => \A i \in 1..turn : plan.steps[i] # ""

----------------------------------------------------------------------------
(* Properties of the code executor *)

ExecFinal == {"Rejected", "Completed", "TimedOut", "RuntimeError"}

IsPrefix(a, b) == Len(a) <= Len(b) /\ a = SubSeq(b, 1, Len(a))

\* The paths of the state machine of an execute call
ExecPaths ==
    {<<"Received", "StaticCheck", "Rejected">>} \cup
    {<<"Received", "StaticCheck", "Accepted", "Run", e>> :
        e \in {"Completed", "TimedOut", "RuntimeError"}}

\* The statement the run was at when it ended
LastRan == code[ran[Len(ran)]]

\* The modules an import statement of the snippet asks for
ImportedModules(stmt) ==
    CASE stmt = "import_ok" -> {"math"}
      [] stmt \in {"import_bad", "from_bad", "from_rel"} -> {"os"}
      [] OTHER -> {}

\* The snippet has a syntax error, a blacklisted bare identifier or an import
\* from outside the whitelist.
Offending(snippet) ==
    \E i \in DOMAIN snippet :
       \/ snippet[i] = "syntax"
       \/ NameIds(snippet[i]) \cap forbidden_names # {}
       \/ ImportedModules(snippet[i]) \ allowed_modules # {}

\* C15: an execute call never raises; it goes Received, StaticCheck, then
\* Rejected or Accepted, Run and one of Completed, TimedOut, RuntimeError;
\* statements of the snippet are run only after Accepted, and the call has
\* returned a result exactly when it is in one of the four final stages.
C15_ExecuteStateMachine ==
    /\ ex_pc # "raised"
    /\ \E path \in ExecPaths : IsPrefix(ex_trace, path)
    /\ ran # <<>> => (\E i \in DOMAIN ex_trace : ex_trace[i] = "Accepted")
    /\ ex_pc \in ExecFinal <=> ex_result # NoExecResult
    /\ ex_pc \in ExecFinal => ex_trace[Len(ex_trace)] = ex_pc

\* C16: a snippet with a syntax error, a blacklisted bare identifier or an
\* import (of any form, relative ones included) from outside the whitelist
\* is rejected by the static check, wherever the offending statement is.
C16_OffendingSnippetRejected ==
    (ex_pc \notin {"idle", "raised"} /\ Offending(code)) =>
        (ex_pc = "Rejected" /\ ran = <<>>)

\* C17: when a snippet with an import from outside the whitelist is
\* rejected, nothing was run and the result has success false and empty
\* output and error.
C17_RejectedImportEmptyBuffers ==
    (/\ ex_pc = "Rejected"
     /\ \E i \in DOMAIN code : ImportedModules(code[i]) \ allowed_modules # {})
    => /\ ran = <<>>
       /\ ~ex_result.success
       /\ ex_result.output = <<>>
       /\ ex_result.error = <<>>

\* C18: a run that wrote to standard output and then raised ends with
\* success false, a non-empty error and the output written before the
\* exception.
C18_PartialOutputKept ==
    (/\ ex_pc \in ExecFinal
     /\ ran # <<>>
     /\ Effect(LastRan) = "exception"
     /\ stdout_capture # <<>>)
    => /\ ~ex_result.success
       /\ ex_result.error # <<>>
       /\ ex_result.output = stdout_capture

\* C19: a run that came to a statement that runs past the wall-clock bound
\* ends there, in TimedOut, with success false and the timeout message, and
\* not in RuntimeError or Completed.
C19_TimeoutIsTimedOut ==
    (ex_pc \notin {"idle", "Accepted", "Run"} /\ ran # <<>> /\ Effect(LastRan) = "timeout")
    => /\ ex_pc = "TimedOut"
       /\ ex_result = TimeoutResult
       /\ ~ex_result.success
       /\ ex_result.message \notin {"run_error", "run_ok"}

\* C19 witness: a snippet printed, then ran past the bound, and the call
\* returned the timeout result.
C19_Witness ==
    /\ ex_pc = "TimedOut"
    /\ stdout_capture # <<>>
    /\ Effect(LastRan) = "timeout"

\* The error buffer at the end of the run, as _run_code returns it
RunErrorBuffer ==
    IF ran # <<>> /\ Effect(LastRan) = "exception" THEN <<"traceback">>
    ELSE stderr_capture

\* C20: the result's success is true exactly when the snippet was not
\* rejected, did not time out and the error buffer is empty at the end of
\* the run.
C20_SuccessIffCleanRun ==
    ex_pc \in ExecFinal =>
        (ex_result.success <=>
            /\ \A i \in DOMAIN ex_trace : ex_trace[i] \notin {"Rejected", "TimedOut"}
            /\ RunErrorBuffer = <<>>)

\* C20 witness, the false side: a run that printed and warned on standard
\* error without raising returns success false.
C20_Witness ==
    /\ ex_pc \in ExecFinal
    /\ \A i \in DOMAIN ex_trace : ex_trace[i] \notin {"Rejected", "TimedOut"}
    /\ ran # <<>>
    /\ Effect(LastRan) # "exception"
    /\ stderr_capture # <<>>
    /\ stdout_capture # <<>>
    /\ ~ex_result.success

----------------------------------------------------------------------------
(* Properties of the fact store *)

\* C22: a successful remember(k, v) directly followed by list_facts gives
\* facts with facts[k] = v, and a successful forget(k) directly followed by
\* recall(k) reports not found, whatever calls came before.
C22_WriteThenReadAgree ==
    /\ (kb_prev.op = "remember" /\ kb_prev.success /\ kb_last.op = "list_facts")
       => /\ ~kb_last.raised
          /\ kb_last.success
          /\ kb_last.facts[kb_prev.key] = kb_prev.value
    /\ (/\ kb_prev.op = "forget" /\ kb_prev.success
        /\ kb_last.op = "recall" /\ kb_last.key = kb_prev.key)
       => /\ ~kb_last.raised
          /\ ~kb_last.success
          /\ kb_last.found = Absent

\* C22 witness: a successful remember, then list_facts, on a store that
\* already held another fact.
C22_Witness ==
    /\ kb_prev.op = "remember"
    /\ kb_prev.success
    /\ kb_last.op = "list_facts"
    /\ \E k \in Keys \ {kb_prev.key} : kb_last.facts[k] # Absent

----------------------------------------------------------------------------
(* Properties of web requests *)

LastAttempt == attempts[Len(attempts)]

WebOver == web_pc \in {"returned", "raised"}

C30_ProxyAndRetryRule ==
    LET configured == GetProxies(web_env)
        retried == /\ attempts[1].outcome = "timeout"
                   /\ ~attempts[1].proxy
                   /\ configured
    IN
    /\ Len(attempts) <= 2
    /\ Len(attempts) >= 1 =>
          (attempts[1].proxy <=> (configured /\ IsForeignSite(web_url)))
    /\ Len(attempts) = 2 => (retried /\ attempts[2].proxy)
    /\ WebOver =>
          /\ retried => Len(attempts) = 2
          /\ web_pc = "raised" <=>
                \/ attempts[1].outcome \notin {"ok", "timeout"}
                \/ attempts[1].outcome = "timeout" /\ ~retried
                \/ Len(attempts) = 2 /\ attempts[2].outcome # "ok"

\* C30 witness: a request to a home site timed out without the proxy and
\* got its response on the second attempt, through the proxy.
C30_Witness ==
    /\ web_pc = "returned"
    /\ Len(attempts) = 2
    /\ ~attempts[1].proxy
    /\ attempts[2].proxy
    /\ attempts[2].outcome = "ok"

----------------------------------------------------------------------------
(* Properties of the file capabilities *)

\* C29: a file capability operates only on targets inside the workspace
\* directory, also when the path names a sibling directory whose name begins
\* with the workspace's name; a call that failed on its path touched nothing.
C29_FileCallsStayInWorkspace ==
    fs_pc = "done" =>
        /\ \A t \in fs_touched : IsInside(t, Workspace)
        /\ (GetSafePath(path_arg).raised =>
               (fs_touched = {} /\ ~fs_result.success))

----------------------------------------------------------------------------
(* Properties of interleaved requests *)

\* The request is between its plan and its return: its context exists.
SessStarted(r) == sess_pc[r] \in {"loop", "step", "summarize", "reflect"}

\* C28: each of two requests on one brain has its own context and its own
\* round counter: the context a request reads starts with its own task and
\* holds only its own entries, numbered by its own rounds, and its counter
\* never passes the number of rounds or steps it may run.
C28_RequestsOwnCounterAndContext ==
    \A r \in Sessions :
       LET c == sess_context[ContextOf(r)] IN
       /\ sess_turn[r] <= max_turns
       /\ SessStarted(r) =>
             /\ Len(c) >= 1
             /\ c[1] = SessEntry(r, 0, "task")
             /\ \A i \in 1..Len(c) : c[i].req = r /\ c[i].round = i - 1
             /\ Len(c) <= sess_turn[r] + 1

\* C28 witness: both requests are under way at the same time, each with a
\* result of its own in its context.
C28_Witness ==
    \A r \in Sessions :
       /\ sess_pc[r] \in {"step", "summarize"}
       /\ Len(sess_context[ContextOf(r)]) >= 2

----------------------------------------------------------------------------
(* Properties of the Run environment *)

\* C21: when an accepted snippet runs, the modules bound in its environment
\* are exactly the modules of the whitelist, the only other name is the
\* reduced built-in set, and no forbidden name is bound or among the
\* built-ins.
C21_RunEnvIsWhitelistAndBuiltins ==
    ex_pc = "Run" =>
        /\ exec_globals \ {"__builtins__"} = allowed_modules
        /\ forbidden_names \cap (exec_globals \cup exec_builtins) = {}

----------------------------------------------------------------------------
(* Properties of the fact snapshot and of the reflection step *)

\* The dispatches of a remember request with both parameters whose
\* capability, once called, stores the fact
FactWrites ==
    {i \in DOMAIN dispatches :
        dispatches[i].tok = "O_remember" /\ dispatches[i].outcome = "ok"}

\* think() is about to call the model service
AtModelCall == pc \in {"loop", "step", "summarize", "reflect"}

InReflection == LastModelCall = "reflect"

ReflectDispatches == SelectSeq(dispatches, LAMBDA d : d.round = 0)

\* The remember requests among the first n items of the reflection reply
RememberItems(n) ==
    SelectSeq(SubSeq(tool_calls.items, 1, n),
              LAMBDA v : v.t = "dict" /\ ActionOf(v.tok) = "remember")

SameTokens(ds, vs) ==
    /\ Len(ds) = Len(vs)
    /\ \A i \in DOMAIN ds : ds[i].tok = vs[i].tok

\* C24: the reflection reply is parsed by the parser of the executor
\* replies; the dispatches of the reflection step are the remember requests
\* of the reply handled so far, in list order, every other action is passed
\* over, and a reply without actions dispatches nothing.
C24_ReflectionDispatchesOnlyRemember ==
    (InReflection /\ response # LLMFail) =>
        /\ tool_calls = ParseToolCall(response).value
        /\ \A i \in DOMAIN ReflectDispatches :
              /\ ReflectDispatches[i].dict
              /\ ActionOf(ReflectDispatches[i].tok) = "remember"
        /\ ~Truthy(tool_calls) => (ReflectDispatches = <<>> /\ pc = "done")
        /\ (pc = "reflect_dispatch" /\ tool_calls.t = "list") =>
              SameTokens(ReflectDispatches, RememberItems(idx - 1))
        /\ (pc = "raised" /\ tool_calls.t = "list") =>
              SameTokens(ReflectDispatches, RememberItems(idx))

\* C24 witness: the reflection reply asked for a directory and then for a
\* fact; the first was passed over and the second was dispatched.
C24_Witness ==
    /\ InReflection
    /\ tool_calls.t = "list"
    /\ Len(tool_calls.items) = 2
    /\ ActionOf(tool_calls.items[1].tok) = "create_directory"
    /\ Len(ReflectDispatches) = 1
    /\ ReflectDispatches[1].tok = "O_remember"

\* C25: the reflection call is made at most once per request, after the
\* final answer was logged in the conversation history; whatever the reply
\* holds, think does not raise out of the reflection step (the model call
\* failing aside), and the answer returned is the final answer.
C25_ReflectionIsBestEffort ==
    /\ Count(model_calls, "reflect") <= 1
    /\ InReflection =>
          /\ memory_log # <<>>
          /\ memory_log[Len(memory_log)] = [role |-> "assistant", req |-> requests]
          /\ pc = "raised" => exc = "LLMError"
    /\ pc = "done" => answer = final_answer

\* C26: think raises to its caller only when a call of the model service
\* failed.
C26_RaisesOnlyOnModelFailure ==
    pc = "raised" =>
        /\ exc = "LLMError"
        /\ response = LLMFail

----------------------------------------------------------------------------
(* Properties of the conversation memory *)

ShortTermIds == {short_term_memory[i].id : i \in DOMAIN short_term_memory}

LongTermIds ==
    {long_term_memory[i].user : i \in DOMAIN long_term_memory}
    \cup {long_term_memory[i].assistant : i \in DOMAIN long_term_memory}

\* C31: every message that ever was added is in the short-term list or in a
\* long-term record, and there are as many long-term records as embedding
\* rows.
C31_NoMessageLostByOverflow ==
    /\ \A id \in 1..mem_count : id \in ShortTermIds \cup LongTermIds
    /\ Len(long_term_memory) = Len(embeddings.rows)

----------------------------------------------------------------------------
(* Properties of learn_new_capability *)

StatusOf(name) ==
    LET Hits == {i \in DOMAIN capabilities : capabilities[i].name = name}
    IN IF Hits = {} THEN "none"
       ELSE capabilities[CHOOSE k \in Hits : \A m \in Hits : k <= m].status

StatusPaths ==
    {<<>>, <<"pending">>, <<"pending", "tested">>,
     <<"pending", "tested", "active">>, <<"pending", "failed">>}

\* C40: a capability's status moves only pending -> tested -> active or
\* pending -> failed; a call that registered the capability ends with it
\* active and reports success exactly when the full test passed, whatever
\* the commit did; after a failed test it is failed and no commit was tried;
\* a call for an existing name or with failed code generation registers,
\* tests and commits nothing and reports no success.
C40_StatusPathAndSuccess ==
    /\ \A n \in CapabilityNames :
          /\ evo_hist[n] \in StatusPaths
          /\ StatusOf(n) = IF evo_hist[n] = <<>> THEN "none"
                           ELSE evo_hist[n][Len(evo_hist[n])]
    /\ evo_pc = "returned" =>
          /\ evo_log \in {<<>>, <<"registered", "test_failed">>,
                           <<"registered", "test_passed", "commit_done">>,
                           <<"registered", "test_passed", "commit_failed">>}
          /\ evo_result <=> (Len(evo_log) >= 2 /\ evo_log[2] = "test_passed")
          /\ evo_log # <<>> =>
                (StatusOf(evo_name) = IF evo_result THEN "active" ELSE "failed")

\* C40 witness: the test passed, the commit failed, and the call returned
\* success with the capability active.
C40_Witness ==
    /\ evo_pc = "returned"
    /\ evo_log = <<"registered", "test_passed", "commit_failed">>
    /\ evo_result
    /\ StatusOf(evo_name) = "active"

----------------------------------------------------------------------------
(* Properties of concurrent calls on the fact store *)

RememberDone(r) ==
    /\ race_pc[r] = "done"
    /\ race_op[r].op = "remember"
    /\ race_res[r]

\* C36: when the calls remember(k1, v1) and remember(k2, v2) of two
\* sessions, k1 # k2, have both returned success and no other call changed
\* the store, the store holds both facts.
C36_ConcurrentWritesBothKept ==
    \A r1, r2 \in Sessions :
       (/\ RememberDone(r1) /\ RememberDone(r2)
        /\ race_op[r1].key # race_op[r2].key
        /\ \A r \in Sessions \ {r1, r2} : race_pc[r] = "idle") =>
           /\ LoadKb(kb_file).data[race_op[r1].key] = RaceValue(race_op[r1].key)
           /\ LoadKb(kb_file).data[race_op[r2].key] = RaceValue(race_op[r2].key)

----------------------------------------------------------------------------
(* Further properties of think *)

\* C32: a planner payload whose plan is the empty list is handled as
\* simple_task: the plan think works with is never an empty list of steps,
\* and no summary call is made for a plan without steps.
C32_EmptyPlanIsSimpleTask ==
    pc \notin {"idle", "plan"} =>
        /\ ~(plan.kind = "list" /\ plan.steps = <<>>)
        /\ Count(model_calls, "summary") > 0 => Len(plan.steps) > 0

StepOver ==
    /\ plan.kind # "simple"
    /\ LastModelCall = "step"
    /\ response # LLMFail
    /\ pc # "step_dispatch"

FirstDispatchOfRound(n) ==
    SelectSeq(dispatches, LAMBDA d : d.round = n)[1]

\* C34: when the reply of a plan step held k >= 2 actions and the step is
\* over, all k were dispatched in list order and the step's result, in the
\* step results and in the context, is the result of the first of them.
C34_AllDispatchedFirstResultKept ==
    (StepOver /\ IsActionList(tool_calls) /\ Len(tool_calls.items) >= 2) =>
        /\ DispatchesOfRound(turn) = RoundTokens
        /\ Len(step_results) = turn
        /\ step_results[turn].result = FirstDispatchOfRound(turn).result
        /\ context[turn].result = FirstDispatchOfRound(turn).result

\* C35: the mapping has 19 names and each of them is a method of the tool
\* set, so no dispatch fails while the mapping is built, and a dispatch of a
\* name that is not in the mapping gives the unknown-action result.
C35_MappingResolves ==
    /\ Cardinality(ToolMapNames) = 19
    /\ \A i \in DOMAIN dispatches :
          LET d == dispatches[i] IN
          d.dict =>
             /\ BuildToolMap
             /\ ~(d.raised /\ d.exc = "AttributeError")
             /\ ActionOf(d.tok) \notin ToolMapNames =>
                   d.result = ActionResult(FALSE, "unknown", ActionOf(d.tok))

\* C37: in the conversation log every user message but the newest entry is
\* followed at once by the assistant message of the same request, and every
\* assistant message follows the user message of its request.
C37_LogAlternates ==
    \A i \in DOMAIN memory_log :
       /\ (memory_log[i].role = "user" /\ i < Len(memory_log)) =>
              memory_log[i + 1] = [role |-> "assistant", req |-> memory_log[i].req]
       /\ memory_log[i].role = "assistant" =>
              (i > 1 /\ memory_log[i - 1] = [role |-> "user", req |-> memory_log[i].req])

\* think is over and no call of the model service failed
ThinkOver == pc \in {"done", "raised"} /\ response # LLMFail

\* C39: when a request is over and every model call returned, its model
\* calls were: one planning call; then at most 5 loop calls, or one step call
\* per step of the plan and one summary call; then one reflection call.
C39_ModelCallsInOrder ==
    ThinkOver =>
        LET n == Len(model_calls) IN
        /\ n >= 2
        /\ model_calls[1] = "plan"
        /\ model_calls[n] = "reflect"
        /\ Count(model_calls, "plan") = 1
        /\ Count(model_calls, "reflect") = 1
        /\ IF plan.kind = "simple"
           THEN /\ n - 2 <= max_turns
                /\ \A i \in 2..(n - 1) : model_calls[i] = "loop"
           ELSE /\ n = Len(plan.steps) + 3
                /\ \A i \in 2..(n - 2) : model_calls[i] = "step"
                /\ model_calls[n - 1] = "summary"

----------------------------------------------------------------------------
(* Properties of imports inside a snippet *)

WhitelistImports == {i \in DOMAIN code : code[i] = "import_ok"}

Accepted == \E i \in DOMAIN ex_trace : ex_trace[i] = "Accepted"

----------------------------------------------------------------------------
(* Frame properties of the fact store *)

\* C38: a call on the store changes only what it names: recall, list_facts,
\* a remember with an empty or non-string key or value and a forget of an
\* absent key leave the file as it is; a successful remember(k, v) changes
\* the value of k only and a successful forget(k) removes k only.
C38_StoreCallsChangeOnlyTheirKey ==
    [][LET op == kb_last'
           before == LoadKb(kb_file).data
           after == LoadKb(kb_file').data
       IN /\ op.op \in {"recall", "list_facts"} => kb_file' = kb_file
          /\ (op.op = "remember" /\ (~ValidStr(op.key) \/ ~ValidStr(op.value)))
                => kb_file' = kb_file
          /\ (op.op = "forget" /\ (~ValidStr(op.key) \/ before[op.key] = Absent))
                => kb_file' = kb_file
          /\ (op.op = "remember" /\ op.success)
                => after = [before EXCEPT ![op.key] = op.value]
          /\ (op.op = "forget" /\ op.success)
                => after = [before EXCEPT ![op.key] = Absent]
      ]_vars

\* C38 witness: a forget succeeded and another fact is still in the store.
C38_Witness ==
    /\ kb_last.op = "forget"
    /\ kb_last.success
    /\ \E k \in Keys : k # kb_last.key /\ LoadKb(kb_file).data[k] # Absent

====
